---- MODULE Spec2Model ----
(***************************************************************************)
(* A model of the constraint engine of csp-solver                          *)
(* (backend/src/csp_solver/solver): the CSP class with its backtracking    *)
(* search, the propagation functions, the nogood store and the             *)
(* all-different propagator.                                               *)
(*                                                                         *)
(* Variables are the integers 1..nv in registration order, every variable  *)
(* has the static domain 1..nd (one add_variables call), and a partial     *)
(* assignment is a function over the variables in which Unassigned marks   *)
(* an absent key.  Domains of non-negative integers are BitsetDomains, so  *)
(* a domain is iterated in ascending order; a Python set of small          *)
(* integers (the neighbor sets) is iterated in ascending order as well.    *)
(***************************************************************************)
EXTENDS Integers, Sequences, FiniteSets, TLC

\* ------------------------------------------------------------------ bounds

\* at most this many constraints are drawn from the candidate list
MaxCons == 2
\* max_solutions ranges over 0..MaxSolutions
MaxSolutions == 2
\* the small problems have NumVars variables with the domain 1..MaxVal
NumVars == 3
MaxVal == 2

\* a key that is absent from a dict (None for dict.get)
Unassigned == 0

\* a store on its own: its variables, its values, its largest max_entries and
\* the calls made on it
StoreVars == 2
StoreVals == 2

\* the largest value put in a BitsetDomain, and the number of domain objects
MaxBit == 2
MaxObjects == 3

\* the unassigned members of an all-different group, and its values
GacVars == 3
GacVals == 5

\* the u-nodes and v-nodes of a bipartite graph, and the nodes of a directed
\* graph
MaxLeft == 3
MaxRight == 3
MaxNodes == 4

\* the largest iteration_count handed to min_conflicts
MaxIterations == 3
MaxStoreEntries == 2
MaxStoreCalls == 4

\* NogoodStore() defaults
NogoodMaxLength == 6
NogoodMaxEntries == 1000

\* ------------------------------------------------------------------ helpers

Range(s) == {s[i] : i \in DOMAIN s}

Min(S) == CHOOSE x \in S : \A y \in S : x <= y

Max(S) == CHOOSE x \in S : \A y \in S : y <= x

\* list(domain) of a BitsetDomain: ascending
RECURSIVE AscList(_)
AscList(S) == IF S = {} THEN <<>> ELSE <<Min(S)>> \o AscList(S \ {Min(S)})

RECURSIVE SumOver(_, _)
SumOver(f, S) == IF S = {} THEN 0
                 ELSE LET x == CHOOSE y \in S : TRUE IN f[x] + SumOver(f, S \ {x})

\* ------------------------------------------------------------------ problems

Con(k, sc, val) == [kind |-> k, scope |-> sc, val |-> val]

Problem(nv, nd, cons) == [nv |-> nv, nd |-> nd, cons |-> cons]

\* csp.variables after add_variables(domain, 1, ..., nv)
Variables(P) == [i \in 1..P.nv |-> i]

VarSet(P) == 1..P.nv

\* csp.domains[v]: one shared list 1..nd
Domain(P) == 1..P.nd

\* _constraint_id of the i-th add_constraint call is i; _var_constraint_ids[v]
\* and constraints[v] hold the constraints whose scope names v
ConstraintsOf(P, v) == {i \in 1..Len(P.cons) : v \in Range(P.cons[i].scope)}

\* csp.neighbors[v]: every variable that shares a scope with v, v excluded
Neighbors(P, v) ==
    {w \in VarSet(P) \ {v} :
        \E i \in ConstraintsOf(P, v) : w \in Range(P.cons[i].scope)}

\* alldiff_groups: the scopes of the constraints tagged _is_alldiff, in order
AlldiffGroups(P) ==
    LET idx == {i \in 1..Len(P.cons) : P.cons[i].kind = "alldiff"}
    IN  [k \in 1..Cardinality(idx) |-> P.cons[AscList(idx)[k]].scope]

\* ------------------------------------------------------------------ constraints

\* the func of a lambda_constraint, applied to the scope's values in scope order
Func(c, vals) ==
    CASE c.kind = "neq" -> vals[1] # vals[2]
      [] c.kind = "lt"  -> vals[1] < vals[2]
      [] c.kind = "gt"  -> vals[1] > vals[2]
      [] c.kind = "eq"  -> vals[1] = vals[2]
      [] c.kind = "eqv" -> vals[1] = c.val

\* a check that applies func at once, whatever is assigned
LambdaCheckEager(c, sol) ==
    Func(c, [i \in 1..Len(c.scope) |-> sol[c.scope[i]]])

\* lambda_constraint's check: True until every scope variable is assigned
LambdaCheck(c, sol) ==
    LET present == SelectSeq(c.scope, LAMBDA v : sol[v] # Unassigned)
        current_values == [i \in 1..Len(present) |-> sol[present[i]]]
    IN  IF Len(c.scope) = Len(current_values) THEN Func(c, current_values) ELSE TRUE

\* a check that compares only the members next to each other in the scope
AllDifferentAdjacent(c, sol) ==
    \A i \in 1..Len(c.scope) - 1 :
        (sol[c.scope[i]] # Unassigned /\ sol[c.scope[i + 1]] # Unassigned)
            => sol[c.scope[i]] # sol[c.scope[i + 1]]

\* all_different_constraint's check: no value seen twice among assigned members
AllDifferentCheck(c, sol) ==
    \A i, j \in 1..Len(c.scope) :
        (i < j /\ sol[c.scope[i]] # Unassigned /\ sol[c.scope[j]] # Unassigned)
            => sol[c.scope[i]] # sol[c.scope[j]]

\* constraint(solution)
Holds(c, sol) ==
    IF c.kind = "alldiff" THEN AllDifferentCheck(c, sol) ELSE LambdaCheck(c, sol)

\* a validity test that is content with one satisfied constraint
IsValidAny(P, variable, sol) ==
    ConstraintsOf(P, variable) # {} =>
        \E i \in ConstraintsOf(P, variable) : Holds(P.cons[i], sol)

\* CSP.is_valid(variable, solution)
IsValid(P, variable, sol) ==
    \A i \in ConstraintsOf(P, variable) : Holds(P.cons[i], sol)

\* the empty dict
EmptySolution(P) == [v \in VarSet(P) |-> Unassigned]

Assigned(sol) == {v \in DOMAIN sol : sol[v] # Unassigned}

\* len(solution)
SolutionLen(sol) == Cardinality(Assigned(sol))

\* ------------------------------------------------------------------ propagation
\* The propagation functions read and write four fields of the CSP object; they
\* are threaded through as a record st:
\*   cd  current_domains   pm  pruned_map   ls  last_support   cs  conflict_set
\* and each returns the record after the call together with its return value.

\* the values a loop "for x in list(current_domains[Xi])" discards from Xi,
\* recorded in pruned_map[variable][Xi]
Discard(st, variable, Xi, gone) ==
    [st EXCEPT !.cd[Xi] = @ \ gone, !.pm[variable][Xi] = @ \cup gone]

\* a forward check that prunes every neighbor of the agenda before it looks
\* for an empty domain
ForwardCheckThrough(P, variable, sol, agenda, i, st) ==
    LET rest == {agenda[k] : k \in i..Len(agenda)}
        left(Xi) == {x \in st.cd[Xi] : IsValid(P, Xi, [sol EXCEPT ![Xi] = x])}
        empty == {Xi \in rest : left(Xi) = {}}
    IN  [st |-> [st EXCEPT
                   !.cd = [n \in DOMAIN st.cd |->
                             IF n \in rest THEN left(n) ELSE st.cd[n]],
                   !.pm[variable] = [n \in DOMAIN st.cd |->
                             IF n \in rest
                             THEN st.pm[variable][n] \cup (st.cd[n] \ left(n))
                             ELSE st.pm[variable][n]],
                   !.cs = [n \in DOMAIN st.cs |->
                             IF n \in empty THEN st.cs[n] \cup {variable}
                             ELSE st.cs[n]]],
         dwo |-> empty # {}]

\* CSP.forward_check, from the agenda's i-th neighbor on
RECURSIVE ForwardCheckFrom(_, _, _, _, _, _)
ForwardCheckFrom(P, variable, sol, agenda, i, st) ==
    IF i > Len(agenda) THEN [st |-> st, dwo |-> FALSE]
    ELSE LET Xi == agenda[i]
             gone == {x \in st.cd[Xi] : ~IsValid(P, Xi, [sol EXCEPT ![Xi] = x])}
             st1 == Discard(st, variable, Xi, gone)
         IN  IF st1.cd[Xi] = {}
             THEN [st |-> [st1 EXCEPT !.cs[Xi] = @ \cup {variable}], dwo |-> TRUE]
             ELSE ForwardCheckFrom(P, variable, sol, agenda, i + 1, st1)

\* a forward check that removes nothing
ForwardCheckIdle(P, variable, sol, st) == [st |-> st, dwo |-> FALSE]

\* CSP.forward_check(variable, solution)
ForwardCheck(P, variable, sol, st) ==
    LET agenda == AscList(Neighbors(P, variable) \ Assigned(sol))
    IN  ForwardCheckFrom(P, variable, sol, agenda, 1, st)

\* a cache test that trusts whatever entry it finds
CacheHitTrusting(P, Xi, Xj, sol, st, x) == st.ls[<<Xi, x, Xj>>] # Unassigned

\* revise: the cached support of (Xi, x, Xj) is still in Xj's domain and valid
CacheHit(P, Xi, Xj, sol, st, x) ==
    LET cached_y == st.ls[<<Xi, x, Xj>>]
    IN  /\ cached_y # Unassigned
        /\ cached_y \in st.cd[Xj]
        /\ IsValid(P, Xj, [sol EXCEPT ![Xi] = x, ![Xj] = cached_y])

\* revise: the values of Xj's current domain that support Xi = x
Supports(P, Xi, Xj, sol, st, x) ==
    {y \in st.cd[Xj] : IsValid(P, Xj, [sol EXCEPT ![Xi] = x, ![Xj] = y])}

\* CSP.revise(variable, Xi, Xj, solution)
Revise(P, variable, Xi, Xj, sol, st) ==
    LET scanned == {x \in st.cd[Xi] : ~CacheHit(P, Xi, Xj, sol, st, x)}
        gone == {x \in scanned : Supports(P, Xi, Xj, sol, st, x) = {}}
        ls1 == [k \in DOMAIN st.ls |->
                  IF k[1] = Xi /\ k[3] = Xj /\ k[2] \in scanned \ gone
                  THEN Min(Supports(P, Xi, Xj, sol, st, k[2]))
                  ELSE st.ls[k]]
    IN  [st |-> Discard([st EXCEPT !.ls = ls1], variable, Xi, gone),
         removed |-> gone # {}]

\* pruning.revise(csp, variable, Xi, Xj, solution): the revision without the
\* cache, every value of Xi is scanned against Xj's whole current domain
ReviseScan(P, variable, Xi, Xj, sol, st) ==
    LET gone == {x \in st.cd[Xi] : Supports(P, Xi, Xj, sol, st, x) = {}}
    IN  [st |-> Discard(st, variable, Xi, gone), removed |-> gone # {}]

\* an enqueue that does not look into the companion set
RECURSIVE EnqueueAgain(_, _, _, _, _, _)
EnqueueAgain(Xks, i, Xi, Xj, blocked, q) ==
    IF i > Len(Xks) THEN q
    ELSE LET p == <<Xks[i], Xi>>
         IN  IF Xks[i] # Xj /\ Xks[i] \notin blocked
             THEN EnqueueAgain(Xks, i + 1, Xi, Xj, blocked,
                               [agenda |-> Append(q.agenda, p),
                                agenda_set |-> q.agenda_set \cup {p}])
             ELSE EnqueueAgain(Xks, i + 1, Xi, Xj, blocked, q)

\* the arcs (Xk, Xi) that AC3 enqueues after Xi lost a value
RECURSIVE Enqueue(_, _, _, _, _, _)
Enqueue(Xks, i, Xi, Xj, blocked, q) ==
    IF i > Len(Xks) THEN q
    ELSE LET p == <<Xks[i], Xi>>
         IN  IF Xks[i] # Xj /\ p \notin q.agenda_set /\ Xks[i] \notin blocked
             THEN Enqueue(Xks, i + 1, Xi, Xj, blocked,
                          [agenda |-> Append(q.agenda, p),
                           agenda_set |-> q.agenda_set \cup {p}])
             ELSE Enqueue(Xks, i + 1, Xi, Xj, blocked, q)

\* the agenda AC3 and AC_FC start from: (Xj, variable) for unassigned neighbors
InitialAgenda(P, variable, sol) ==
    LET ns == AscList(Neighbors(P, variable) \ Assigned(sol))
    IN  [i \in 1..Len(ns) |-> <<ns[i], variable>>]

\* CSP.AC3: the while loop
RECURSIVE AC3Loop(_, _, _, _, _)
AC3Loop(P, variable, sol, q, st) ==
    IF Len(q.agenda) = 0 THEN [st |-> st, dwo |-> FALSE]
    ELSE LET arc == q.agenda[Len(q.agenda)]
             q1 == [agenda |-> SubSeq(q.agenda, 1, Len(q.agenda) - 1),
                    agenda_set |-> q.agenda_set \ {arc}]
             Xi == arc[1]
             Xj == arc[2]
             r == Revise(P, variable, Xi, Xj, sol, st)
         IN  IF r.removed
             THEN IF r.st.cd[Xi] = {}
                  THEN [st |-> [r.st EXCEPT !.cs[Xi] = @ \cup {variable}],
                        dwo |-> TRUE]
                  ELSE AC3Loop(P, variable, sol,
                               Enqueue(AscList(Neighbors(P, Xi)), 1, Xi, Xj,
                                       Assigned(sol), q1),
                               r.st)
             ELSE AC3Loop(P, variable, sol, q1, r.st)

\* CSP.AC3: what the while loop passes through, the worklist q and the search
\* state st at every test of the loop condition and, last, at return True
RECURSIVE AC3Run(_, _, _, _, _)
AC3Run(P, variable, sol, q, st) ==
    LET here == <<[q |-> q, st |-> st, dwo |-> FALSE]>>
    IN  IF Len(q.agenda) = 0 THEN here
        ELSE LET arc == q.agenda[Len(q.agenda)]
                 q1 == [agenda |-> SubSeq(q.agenda, 1, Len(q.agenda) - 1),
                        agenda_set |-> q.agenda_set \ {arc}]
                 Xi == arc[1]
                 Xj == arc[2]
                 r == Revise(P, variable, Xi, Xj, sol, st)
             IN  IF r.removed
                 THEN IF r.st.cd[Xi] = {}
                      THEN here \o
                           <<[q |-> q1,
                              st |-> [r.st EXCEPT !.cs[Xi] = @ \cup {variable}],
                              dwo |-> TRUE]>>
                      ELSE here \o
                           AC3Run(P, variable, sol,
                                  Enqueue(AscList(Neighbors(P, Xi)), 1, Xi, Xj,
                                          Assigned(sol), q1),
                                  r.st)
                 ELSE here \o AC3Run(P, variable, sol, q1, r.st)

\* CSP.AC3(variable, solution)
AC3(P, variable, sol, st) ==
    LET agenda == InitialAgenda(P, variable, sol)
    IN  AC3Loop(P, variable, sol,
                [agenda |-> agenda, agenda_set |-> Range(agenda)], st)

\* CSP.AC_FC: the while loop
RECURSIVE ACFCLoop(_, _, _, _, _)
ACFCLoop(P, variable, sol, agenda, st) ==
    IF Len(agenda) > 0 /\ IsValid(P, variable, sol)
    THEN LET arc == agenda[Len(agenda)]
             r == Revise(P, variable, arc[1], arc[2], sol, st)
         IN  IF r.removed /\ r.st.cd[arc[1]] = {}
             THEN [st |-> [r.st EXCEPT !.cs[arc[1]] = @ \cup {variable}],
                   dwo |-> TRUE]
             ELSE ACFCLoop(P, variable, sol,
                           SubSeq(agenda, 1, Len(agenda) - 1), r.st)
    ELSE [st |-> st, dwo |-> FALSE]

\* CSP.AC_FC(variable, solution)
AC_FC(P, variable, sol, st) ==
    ACFCLoop(P, variable, sol, InitialAgenda(P, variable, sol), st)

\* ------------------------------------------------------------------ GAC all-different
\* Nodes are numbered from 1 (the source numbers them from 0), so NoMatch, the
\* source's _NONE = -1, is 0, and Tarjan's counters start at 1.

NoMatch == 0

\* _hopcroft_karp.bfs: the scan of adj[u] from its j-th entry
RECURSIVE BfsScan(_, _, _, _, _)
BfsScan(adj, INF, u, j, b) ==
    IF j > Len(adj[u]) THEN b
    ELSE LET mu == b.match_v[adj[u][j]]
         IN  IF mu = NoMatch
             THEN BfsScan(adj, INF, u, j + 1, [b EXCEPT !.found = TRUE])
             ELSE IF b.dist[mu] = INF
             THEN BfsScan(adj, INF, u, j + 1,
                          [b EXCEPT !.dist[mu] = b.dist[u] + 1,
                                    !.queue_buf = Append(@, mu)])
             ELSE BfsScan(adj, INF, u, j + 1, b)

\* _hopcroft_karp.bfs: the while loop over queue_buf
RECURSIVE BfsLoop(_, _, _, _)
BfsLoop(adj, INF, head, b) ==
    IF head > Len(b.queue_buf) THEN b
    ELSE BfsLoop(adj, INF, head + 1, BfsScan(adj, INF, b.queue_buf[head], 1, b))

\* _hopcroft_karp.bfs(): layers the u-nodes from the unmatched ones
Bfs(n_u, adj, INF, m) ==
    LET free == {u \in 1..n_u : m.match_u[u] = NoMatch}
        b0 == [match_v |-> m.match_v,
               dist |-> [u \in 1..n_u |-> IF u \in free THEN 0 ELSE INF],
               queue_buf |-> AscList(free),
               found |-> FALSE]
        b == BfsLoop(adj, INF, 1, b0)
    IN  [m |-> [m EXCEPT !.dist = b.dist], found |-> b.found]

\* _hopcroft_karp.dfs(u), from the j-th entry of adj[u]
RECURSIVE Dfs(_, _, _, _, _)
Dfs(adj, INF, u, j, m) ==
    IF j > Len(adj[u]) THEN [m |-> [m EXCEPT !.dist[u] = INF], ok |-> FALSE]
    ELSE LET v == adj[u][j]
             mu == m.match_v[v]
         IN  IF mu = NoMatch
             THEN [m |-> [m EXCEPT !.match_u[u] = v, !.match_v[v] = u], ok |-> TRUE]
             ELSE IF m.dist[mu] = m.dist[u] + 1
             THEN LET r == Dfs(adj, INF, mu, 1, m)
                  IN  IF r.ok
                      THEN [m |-> [r.m EXCEPT !.match_u[u] = v, !.match_v[v] = u],
                            ok |-> TRUE]
                      ELSE Dfs(adj, INF, u, j + 1, r.m)
             ELSE Dfs(adj, INF, u, j + 1, m)

\* _hopcroft_karp: "for u in range(n_u): if match_u[u] == _NONE: dfs(u)"
RECURSIVE DfsPhase(_, _, _, _, _)
DfsPhase(n_u, adj, INF, u, m) ==
    IF u > n_u THEN m
    ELSE IF m.match_u[u] = NoMatch
    THEN DfsPhase(n_u, adj, INF, u + 1, Dfs(adj, INF, u, 1, m).m)
    ELSE DfsPhase(n_u, adj, INF, u + 1, m)

\* a matching that stops after the first phase
HopcroftKarpOnce(n_u, adj, INF, m) ==
    LET b == Bfs(n_u, adj, INF, m)
    IN  IF b.found THEN DfsPhase(n_u, adj, INF, 1, b.m) ELSE b.m

\* _hopcroft_karp: "while bfs(): ..."
RECURSIVE HopcroftKarpLoop(_, _, _, _)
HopcroftKarpLoop(n_u, adj, INF, m) ==
    LET b == Bfs(n_u, adj, INF, m)
    IN  IF b.found THEN HopcroftKarpLoop(n_u, adj, INF, DfsPhase(n_u, adj, INF, 1, b.m))
        ELSE b.m

\* _hopcroft_karp(n_u, n_v, adj)
HopcroftKarp(n_u, n_v, adj) ==
    HopcroftKarpLoop(n_u, adj, n_u + n_v + 1,
                     [match_u |-> [u \in 1..n_u |-> NoMatch],
                      match_v |-> [v \in 1..n_v |-> NoMatch],
                      dist |-> [u \in 1..n_u |-> 0]])

\* a pop that gives every node of the component an id of its own
RECURSIVE PopApart(_, _)
PopApart(v, t) ==
    LET w == t.stack[Len(t.stack)]
        t1 == [t EXCEPT !.stack = SubSeq(@, 1, Len(@) - 1),
                        !.on_stack[w] = FALSE,
                        !.scc_id[w] = t.scc_counter,
                        !.scc_counter = @ + 1]
    IN  IF w = v THEN t1 ELSE PopApart(v, t1)

\* _tarjan_scc_iterative: "while True: w = stack.pop() ..." for the root v
RECURSIVE PopComponent(_, _)
PopComponent(v, t) ==
    LET w == t.stack[Len(t.stack)]
        t1 == [t EXCEPT !.stack = SubSeq(@, 1, Len(@) - 1),
                        !.on_stack[w] = FALSE,
                        !.scc_id[w] = t.scc_counter]
    IN  IF w = v THEN [t1 EXCEPT !.scc_counter = @ + 1] ELSE PopComponent(v, t1)

\* _tarjan_scc_iterative: "while call_stack: ..."
RECURSIVE TarjanLoop(_, _)
TarjanLoop(adj, t) ==
    IF Len(t.call_stack) = 0 THEN t
    ELSE LET top == Len(t.call_stack)
             v == t.call_stack[top][1]
             ni == t.call_stack[top][2]
         IN  IF ni <= Len(adj[v])
             THEN LET w == adj[v][ni]
                      t1 == [t EXCEPT !.call_stack[top] = <<v, ni + 1>>]
                  IN  IF t1.index[w] = NoMatch
                      THEN TarjanLoop(adj,
                             [t1 EXCEPT !.index[w] = t.counter,
                                        !.lowlink[w] = t.counter,
                                        !.counter = @ + 1,
                                        !.stack = Append(@, w),
                                        !.on_stack[w] = TRUE,
                                        !.call_stack = Append(@, <<w, 1>>)])
                      ELSE IF t1.on_stack[w] /\ t1.index[w] < t1.lowlink[v]
                      THEN TarjanLoop(adj, [t1 EXCEPT !.lowlink[v] = t1.index[w]])
                      ELSE TarjanLoop(adj, t1)
             ELSE LET t1 == IF t.lowlink[v] = t.index[v] THEN PopComponent(v, t) ELSE t
                      t2 == [t1 EXCEPT !.call_stack = SubSeq(@, 1, top - 1)]
                  IN  IF top > 1
                      THEN LET parent == t2.call_stack[top - 1][1]
                           IN  IF t2.lowlink[v] < t2.lowlink[parent]
                               THEN TarjanLoop(adj,
                                      [t2 EXCEPT !.lowlink[parent] = t2.lowlink[v]])
                               ELSE TarjanLoop(adj, t2)
                      ELSE TarjanLoop(adj, t2)

\* _tarjan_scc_iterative: "for start in range(n_nodes): ..."
RECURSIVE TarjanFrom(_, _, _, _)
TarjanFrom(n_nodes, adj, start, t) ==
    IF start > n_nodes THEN t
    ELSE IF t.index[start] # NoMatch THEN TarjanFrom(n_nodes, adj, start + 1, t)
    ELSE TarjanFrom(n_nodes, adj, start + 1,
           TarjanLoop(adj,
             [t EXCEPT !.call_stack = Append(@, <<start, 1>>),
                       !.index[start] = t.counter,
                       !.lowlink[start] = t.counter,
                       !.counter = @ + 1,
                       !.stack = Append(@, start),
                       !.on_stack[start] = TRUE]))

\* _tarjan_scc_iterative(n_nodes, adj): scc_id of every node
TarjanScc(n_nodes, adj) ==
    TarjanFrom(n_nodes, adj, 1,
               [index |-> [n \in 1..n_nodes |-> NoMatch],
                lowlink |-> [n \in 1..n_nodes |-> 0],
                on_stack |-> [n \in 1..n_nodes |-> FALSE],
                scc_id |-> [n \in 1..n_nodes |-> NoMatch],
                stack |-> <<>>,
                call_stack |-> <<>>,
                counter |-> 1,
                scc_counter |-> 1]).scc_id

\* position of x in the ascending list of S
IndexIn(S, x) == Cardinality({y \in S : y <= x})

\* the list comprehension that collects the removals, u-major and vi-minor
RECURSIVE Removals(_, _, _, _, _, _, _)
Removals(unassigned, val_list, adj, match_u, scc_id, u, j) ==
    IF u > Len(unassigned) THEN <<>>
    ELSE IF j > Len(adj[u])
    THEN Removals(unassigned, val_list, adj, match_u, scc_id, u + 1, 1)
    ELSE LET vi == adj[u][j]
             rest == Removals(unassigned, val_list, adj, match_u, scc_id, u, j + 1)
         IN  IF vi # match_u[u] /\ scc_id[u] # scc_id[Len(unassigned) + vi]
             THEN <<(<<unassigned[u], val_list[vi]>>)>> \o rest
             ELSE rest

\* a propagation that neither skips small groups nor looks whether the
\* matching covers every variable
GacAlldiffEager(unassigned, cd, sol, group) ==
    LET n_vars == Len(unassigned)
        assigned_vals == {sol[v] : v \in Range(group) \cap Assigned(sol)}
        avail(u) == cd[unassigned[u]] \ assigned_vals
        all_values_set == UNION {avail(u) : u \in 1..n_vars}
        val_list == AscList(all_values_set)
        n_vals == Len(val_list)
        adj == [u \in 1..n_vars |->
                  [k \in 1..Cardinality(avail(u)) |->
                      IndexIn(all_values_set, AscList(avail(u))[k])]]
        match_u == HopcroftKarp(n_vars, n_vals, adj).match_u
        total_nodes == n_vars + n_vals
        res_adj == [n \in 1..total_nodes |->
                      IF n <= n_vars
                      THEN LET out == SelectSeq(adj[n], LAMBDA vi : vi # match_u[n])
                           IN  [k \in 1..Len(out) |-> n_vars + out[k]]
                      ELSE AscList({u \in 1..n_vars : match_u[u] = n - n_vars})]
        scc_id == TarjanScc(total_nodes, res_adj)
    IN  IF all_values_set = {} THEN <<>>
        ELSE Removals(unassigned, val_list, adj, match_u, scc_id, 1, 1)

\* gac_alldiff_propagate(unassigned, current_domains, solution, group)
GacAlldiffPropagate(unassigned, cd, sol, group) ==
    LET n_vars == Len(unassigned)
        assigned_vals == {sol[v] : v \in Range(group) \cap Assigned(sol)}
        avail(u) == cd[unassigned[u]] \ assigned_vals
        all_values_set == UNION {avail(u) : u \in 1..n_vars}
        val_list == AscList(all_values_set)
        n_vals == Len(val_list)
        adj == [u \in 1..n_vars |->
                  [k \in 1..Cardinality(avail(u)) |->
                      IndexIn(all_values_set, AscList(avail(u))[k])]]
        match_u == HopcroftKarp(n_vars, n_vals, adj).match_u
        total_nodes == n_vars + n_vals
        res_adj == [n \in 1..total_nodes |->
                      IF n <= n_vars
                      THEN LET out == SelectSeq(adj[n], LAMBDA vi : vi # match_u[n])
                           IN  [k \in 1..Len(out) |-> n_vars + out[k]]
                      ELSE AscList({u \in 1..n_vars : match_u[u] = n - n_vars})]
        scc_id == TarjanScc(total_nodes, res_adj)
    IN  IF n_vars <= 2 THEN <<>>
        ELSE IF all_values_set = {} THEN <<>>
        ELSE IF \E u \in 1..n_vars : match_u[u] = NoMatch THEN <<>>
        ELSE Removals(unassigned, val_list, adj, match_u, scc_id, 1, 1)

\* _propagate_gac_alldiff: "for var, val in removals: ..." from the i-th removal
RECURSIVE ApplyRemovals(_, _, _, _)
ApplyRemovals(variable, removals, i, st) ==
    IF i > Len(removals) THEN [st |-> st, dwo |-> FALSE]
    ELSE LET var == removals[i][1]
             st1 == Discard(st, variable, var, {removals[i][2]})
         IN  IF st1.cd[var] = {} THEN [st |-> st1, dwo |-> TRUE]
             ELSE ApplyRemovals(variable, removals, i + 1, st1)

\* _propagate_gac_alldiff: "for group in self.alldiff_groups: ..." from group g
RECURSIVE GacGroups(_, _, _, _, _)
GacGroups(P, variable, sol, g, st) ==
    IF g > Len(AlldiffGroups(P)) THEN [st |-> st, dwo |-> FALSE]
    ELSE LET group == AlldiffGroups(P)[g]
             unassigned == SelectSeq(group, LAMBDA v : sol[v] = Unassigned)
         IN  IF variable \notin Range(group) \/ Len(unassigned) = 0
             THEN GacGroups(P, variable, sol, g + 1, st)
             ELSE LET r == ApplyRemovals(variable,
                             GacAlldiffPropagate(unassigned, st.cd, sol, group), 1, st)
                  IN  IF r.dwo THEN r ELSE GacGroups(P, variable, sol, g + 1, r.st)

\* CSP._propagate_gac_alldiff(variable, solution)
PropagateGacAlldiff(P, use_gac_alldiff, variable, sol, st) ==
    IF ~use_gac_alldiff \/ Len(AlldiffGroups(P)) = 0 THEN [st |-> st, dwo |-> FALSE]
    ELSE GacGroups(P, variable, sol, 1, st)

\* ------------------------------------------------------------------ nogood store
\* A store is [store, var_index]: _store's keys from least to most recently used,
\* and _var_index as a function (an absent key is the empty list).

\* NogoodStore(max_length, max_entries): an empty store
NewStore(P, max_length, max_entries) ==
    [store |-> <<>>, var_index |-> [v \in VarSet(P) |-> <<>>],
     max_length |-> max_length, max_entries |-> max_entries]

\* NogoodStore(): the store the solver builds; also what its clear() leaves
EmptyStore(P) == NewStore(P, NogoodMaxLength, NogoodMaxEntries)

\* NogoodStore.clear()
Clear(ng) ==
    [ng EXCEPT !.store = <<>>, !.var_index = [v \in DOMAIN ng.var_index |-> <<>>]]

\* list.remove(x): drops the first occurrence, if any
RemoveFirst(s, x) ==
    IF x \notin Range(s) THEN s
    ELSE LET k == Min({i \in DOMAIN s : s[i] = x})
         IN  SubSeq(s, 1, k - 1) \o SubSeq(s, k + 1, Len(s))

\* OrderedDict.move_to_end(key)
MoveToEnd(s, x) == Append(RemoveFirst(s, x), x)

\* the frozenset of a conflict assignment dict
Frozen(conflict_assignments) ==
    {<<v, conflict_assignments[v]>> : v \in Assigned(conflict_assignments)}

NogoodVars(nogood) == {pair[1] : pair \in nogood}

\* a record that keeps every conflict set and evicts nothing
RecordUnbounded(ng, conflict_assignments) ==
    [ng EXCEPT !.store = Append(RemoveFirst(@, Frozen(conflict_assignments)),
                                Frozen(conflict_assignments))]

\* NogoodStore.record(conflict_assignments)
Record(ng, conflict_assignments) ==
    LET nogood == Frozen(conflict_assignments)
        full == Len(ng.store) >= ng.max_entries
        evicted == ng.store[1]
        kept == IF full
                THEN [ng EXCEPT
                        !.store = Tail(ng.store),
                        !.var_index = [v \in DOMAIN ng.var_index |->
                                         IF v \in NogoodVars(evicted)
                                         THEN RemoveFirst(ng.var_index[v], evicted)
                                         ELSE ng.var_index[v]]]
                ELSE ng
    IN  IF Cardinality(nogood) > ng.max_length \/ nogood = {} THEN ng
        ELSE IF nogood \in Range(ng.store)
        THEN [ng EXCEPT !.store = MoveToEnd(@, nogood)]
        ELSE [kept EXCEPT
                !.store = Append(kept.store, nogood),
                !.var_index = [v \in DOMAIN kept.var_index |->
                                 IF v \in NogoodVars(nogood)
                                 THEN Append(kept.var_index[v], nogood)
                                 ELSE kept.var_index[v]]]

\* a match that looks at the pair (variable, value) alone
MatchesPair(nogood, variable, value, sol) == <<variable, value>> \in nogood

\* is_nogood: the nogood holds (variable, value) and all its other pairs match
Matches(nogood, variable, value, sol) ==
    /\ <<variable, value>> \in nogood
    /\ \A pair \in nogood : pair[1] = variable \/ sol[pair[1]] = pair[2]

\* an is_nogood that finds the same nogood and leaves the recency order alone
IsNogoodNoRefresh(ng, variable, value, sol) ==
    LET found == {nogood \in Range(ng.var_index[variable]) :
                     Matches(nogood, variable, value, sol)}
    IN  IF found = {} THEN [hit |-> FALSE, nogood |-> {}, ng |-> ng]
        ELSE [hit |-> TRUE,
              nogood |-> CHOOSE nogood \in found :
                            \A other \in found :
                               Min({i \in DOMAIN ng.var_index[variable] :
                                       ng.var_index[variable][i] = nogood})
                               <= Min({i \in DOMAIN ng.var_index[variable] :
                                          ng.var_index[variable][i] = other}),
              ng |-> ng]

\* NogoodStore.is_nogood(variable, value, solution): the result, the nogood
\* that matched, and the store with that nogood moved to the recent end
IsNogood(ng, variable, value, sol) ==
    LET candidates == ng.var_index[variable]
        hits == {i \in DOMAIN candidates : Matches(candidates[i], variable, value, sol)}
    IN  IF hits = {} THEN [hit |-> FALSE, nogood |-> {}, ng |-> ng]
        ELSE [hit |-> TRUE,
              nogood |-> candidates[Min(hits)],
              ng |-> [ng EXCEPT !.store = MoveToEnd(@, candidates[Min(hits)])]]

\* ------------------------------------------------------------------ variable ordering

\* CSP._wdeg(v)
Wdeg(P, weights, v) == SumOver(weights, ConstraintsOf(P, v))

\* len(current_domains[v]) / max(_wdeg(v), 1e-9) of v below that of u.  With a
\* weight of zero the key is the size times 10^9, above every key with a
\* positive weight and a non-empty domain.
DomWdegLess(P, cd, weights, v, u) ==
    LET lv == Cardinality(cd[v])
        lu == Cardinality(cd[u])
        wv == Wdeg(P, weights, v)
        wu == Wdeg(P, weights, u)
    IN  CASE wv > 0 /\ wu > 0 -> lv * wu < lu * wv
          [] wv = 0 /\ wu = 0 -> lv < lu
          [] wv = 0 /\ wu > 0 -> lv = 0 /\ lu > 0
          [] wv > 0 /\ wu = 0 -> lu > 0

\* min(variable_stack, key): the first variable no other one is below
\* (less holds the pairs <<v, u>> with key(v) < key(u))
FirstMin(stack, less) ==
    LET best == Min({i \in DOMAIN stack :
                        \A j \in DOMAIN stack : <<stack[j], stack[i]>> \notin less})
    IN  stack[best]

\* CSP.get_next_variable(): the chosen variable and the stack without it
GetNextVariable(P, ordering, stack, cd, weights) ==
    LET on_stack == Range(stack)
        SizeLess == {p \in on_stack \X on_stack :
                        Cardinality(cd[p[1]]) < Cardinality(cd[p[2]])}
        WdegLess == {p \in on_stack \X on_stack :
                        DomWdegLess(P, cd, weights, p[1], p[2])}
        best == CASE ordering = "FAIL_FIRST" -> FirstMin(stack, SizeLess)
                  [] ordering = "DOM_WDEG" -> FirstMin(stack, WdegLess)
                  [] ordering = "NO_ORDERING" -> stack[Len(stack)]
    IN  [v |-> best,
         stack |-> IF ordering = "NO_ORDERING" THEN SubSeq(stack, 1, Len(stack) - 1)
                   ELSE RemoveFirst(stack, best)]

\* CSP._increment_weights_on_dwo(variable)
IncrementWeightsOnDwo(P, weights, variable) ==
    [cid \in DOMAIN weights |->
        IF cid \in ConstraintsOf(P, variable) THEN weights[cid] + 1 ELSE weights[cid]]

\* an undo that empties the log and gives no value back
RestoreNothing(st, variable) ==
    [st EXCEPT !.pm[variable] = [n \in DOMAIN st.cd |-> {}]]

\* an undo that gives the values back and leaves them in the log
RestoreKeepLog(st, variable) ==
    [st EXCEPT !.cd = [n \in DOMAIN st.cd |-> st.cd[n] \cup st.pm[variable][n]]]

\* CSP.restore_pruned_domains(variable)
RestorePrunedDomains(st, variable) ==
    [st EXCEPT !.cd = [n \in DOMAIN st.cd |-> st.cd[n] \cup st.pm[variable][n]],
               !.pm[variable] = [n \in DOMAIN st.cd |-> {}]]

\* self.pruning_function(v, solution)
PruningFunction(P, pruning_type, variable, sol, st) ==
    CASE pruning_type = "FORWARD_CHECKING" -> ForwardCheck(P, variable, sol, st)
      [] pruning_type = "AC3" -> AC3(P, variable, sol, st)
      [] pruning_type = "AC_FC" -> AC_FC(P, variable, sol, st)
      [] pruning_type = "NO_PRUNING" -> [st |-> st, dwo |-> FALSE]

\* ------------------------------------------------------------------ inputs

PruningTypes == {"FORWARD_CHECKING", "AC3", "AC_FC", "NO_PRUNING"}

Orderings == {"FAIL_FIRST", "NO_ORDERING", "DOM_WDEG"}

\* the arguments of CSP(...)
Configs ==
    [pruning_type : PruningTypes, variable_ordering : Orderings,
     max_solutions : 0..MaxSolutions, use_gac_alldiff : BOOLEAN,
     use_nogoods : BOOLEAN]

\* CSP(): the defaults of the arguments
DefaultConfig ==
    [pruning_type |-> "FORWARD_CHECKING", variable_ordering |-> "NO_ORDERING",
     max_solutions |-> 1, use_gac_alldiff |-> FALSE, use_nogoods |-> FALSE]

\* the constraints a small problem draws from: x # y over each pair, x < y in
\* both directions, all-different over all variables
Candidates(nv) ==
    LET pairs == {p \in (1..nv) \X (1..nv) : p[1] < p[2]}
        both == {p \in (1..nv) \X (1..nv) : p[1] # p[2]}
    IN  {Con("neq", p, 0) : p \in pairs}
            \cup {Con("lt", p, 0) : p \in both}
            \cup {Con("alldiff", [i \in 1..nv |-> i], 0)}

\* a set of constraints in some registration order
RECURSIVE SeqOf(_)
SeqOf(S) == IF S = {} THEN <<>>
            ELSE LET c == CHOOSE x \in S : TRUE IN <<c>> \o SeqOf(S \ {c})

\* every problem over NumVars variables and the domain 1..MaxVal with at most
\* MaxCons of the candidate constraints
SmallProblems ==
    {Problem(NumVars, MaxVal, SeqOf(S)) :
        S \in {T \in SUBSET Candidates(NumVars) : Cardinality(T) <= MaxCons}}

\* test_unsolvable_pigeonhole: three variables, one value, all-different
Pigeonhole == Problem(3, 1, <<Con("alldiff", <<1, 2, 3>>, 0)>>)

\* a chain of four variables with one solution: x1 # x2, x1 # x3, x4 < x2
Chain == Problem(4, 2, <<Con("neq", <<1, 2>>, 0), Con("neq", <<1, 3>>, 0),
                         Con("lt", <<4, 2>>, 0)>>)

\* four all-different variables (a Sudoku row) over four values
Row == Problem(4, 4, <<Con("alldiff", <<1, 2, 3, 4>>, 0)>>)

\* five variables over three values where AC3 revises x2 a second time while
\* an arc into x2 is still in the worklist: x2 < x1, x2 < x5, x4 < x5,
\* x2 < x4, x2 # x3
Funnel == Problem(5, 3, <<Con("lt", <<2, 1>>, 0), Con("lt", <<2, 5>>, 0),
                          Con("lt", <<4, 5>>, 0), Con("lt", <<2, 4>>, 0),
                          Con("neq", <<2, 3>>, 0)>>)

Problems == SmallProblems \cup {Pigeonhole, Chain, Row, Funnel}

\* ------------------------------------------------------------------ state

VARIABLES
    prob,             \* the registered variables, domains and constraints
    cfg,              \* the constructor's arguments
    pc,               \* "idle", "call", "loop", "ret" or "done"
    solution,         \* the dict handed down the recursion
    frames,           \* the open backtrack calls: [v, vals, entry], vals still
                      \* to try, entry what the call found when it was entered
    current_domains,
    pruned_map,
    last_support,
    conflict_set,
    child_conflicts,  \* _child_conflicts: [alias, val], see ChildConflicts
    variable_stack,
    solutions,
    backtrack_count,
    weights,          \* _constraint_weights
    nogood_store,
    retval,           \* what the backtrack call that just ended returned
    returned,         \* what the entry point returned (when pc = "done")
    calls,            \* how many times backtrack was entered since the reset
    given,            \* the argument of solve_with_initial_propagation
    prev,             \* the outcomes of the earlier calls, oldest first
    last_call,        \* the last call on an object used on its own, with its
                      \* arguments and what it returned
    used,             \* for each nogood, the number of the call that used it last
    bitsets,          \* the BitsetDomain objects: their _bits
    sets,             \* the built-in sets driven alongside the BitsetDomains
    iteration,        \* min_conflicts: the passes of its loop so far
    variables         \* csp.variables, in the order the list holds them

vars == <<prob, cfg, pc, solution, frames, current_domains, pruned_map,
          last_support, conflict_set, child_conflicts, variable_stack, solutions,
          backtrack_count, weights, nogood_store, retval, returned, calls, given,
          prev, last_call, used, bitsets, sets, iteration, variables>>

\* the variables no search touches
apart == <<last_call, used, bitsets, sets, iteration, variables>>

NoCall == [op |-> "none", n |-> 0]

\* no object has been used on its own
NothingApart ==
    /\ last_call = NoCall
    /\ used = <<>>
    /\ bitsets = <<>>
    /\ sets = <<>>
    /\ iteration = 0

\* the four fields the propagation functions work on
St == [cd |-> current_domains, pm |-> pruned_map, ls |-> last_support,
       cs |-> conflict_set]

SetSt(st) ==
    /\ current_domains' = st.cd
    /\ pruned_map' = st.pm
    /\ last_support' = st.ls
    /\ conflict_set' = st.cs

\* _child_conflicts is the very set object conflict_set[alias] until backtrack
\* rebinds conflict_set[alias] to a new set; from then on it is the value val
ChildConflicts ==
    IF child_conflicts.alias # Unassigned THEN conflict_set[child_conflicts.alias]
    ELSE child_conflicts.val

NoConflicts == [alias |-> Unassigned, val |-> {}]

\* CSP.__init__ followed by the add_variables and add_constraint calls: every
\* field but the nogood store
ConstructedFields(P, c) ==
    /\ prob = P
    /\ cfg = c
    /\ pc = "idle"
    /\ solution = EmptySolution(P)
    /\ frames = <<>>
    /\ current_domains = [v \in VarSet(P) |-> {}]
    /\ pruned_map = [v \in VarSet(P) |-> [n \in VarSet(P) |-> {}]]
    /\ last_support = [k \in VarSet(P) \X Domain(P) \X VarSet(P) |-> Unassigned]
    /\ conflict_set = [v \in VarSet(P) |-> {}]
    /\ child_conflicts = NoConflicts
    /\ variable_stack = <<>>
    /\ solutions = <<>>
    /\ backtrack_count = 0
    /\ weights = [cid \in 1..Len(P.cons) |-> 1]
    /\ retval = FALSE
    /\ returned = FALSE
    /\ calls = 0
    /\ given = EmptySolution(P)
    /\ variables = Variables(P)

\* CSP.__init__ followed by the add_variables and add_constraint calls
Constructed(P, c) ==
    /\ ConstructedFields(P, c)
    /\ nogood_store = EmptyStore(P)

Init ==
    /\ \E P \in Problems, c \in Configs : Constructed(P, c)
    /\ prev = <<>>
    /\ NothingApart

\* ------------------------------------------------------------------ solve

\* CSP._reset() and the loop of solve() that refills the per-search state
SolveCall ==
    /\ variable_stack' = variables
    /\ current_domains' = [v \in VarSet(prob) |-> Domain(prob)]
    /\ pruned_map' = [v \in VarSet(prob) |-> [n \in VarSet(prob) |-> {}]]
    /\ backtrack_count' = 0
    /\ last_support' = [k \in DOMAIN last_support |-> Unassigned]
    /\ conflict_set' = [v \in VarSet(prob) |-> {}]
    /\ child_conflicts' = NoConflicts
    /\ solutions' = <<>>
    /\ nogood_store' = EmptyStore(prob)
    /\ solution' = EmptySolution(prob)
    /\ calls' = 0
    /\ pc' = "call"
    /\ UNCHANGED <<prob, cfg, frames, weights, retval, returned, given, apart>>

\* CSP.solve() on a newly constructed CSP
Solve ==
    /\ pc = "idle"
    /\ SolveCall
    /\ UNCHANGED prev

\* backtrack(solution), up to the start of its value loop
\* a leaf that stops the search at the first solution, whatever the limit
ShouldStopAlways(sols, max_solutions) == TRUE

\* a leaf that lets the count pass the limit before it stops
ShouldStopStrict(sols, max_solutions) == Len(sols) > max_solutions

\* backtrack's leaf: len(self.solutions) >= self.max_solutions
ShouldStop(sols, max_solutions) == Len(sols) >= max_solutions

\* what backtrack(solution) finds when it is entered: the partial assignment,
\* the current domains and the pending variables
Entry ==
    [solution |-> solution, current_domains |-> current_domains,
     pending |-> Range(variable_stack)]

BacktrackEnter ==
    /\ pc = "call"
    /\ calls' = calls + 1
    /\ IF SolutionLen(solution) = Len(variables)
       THEN /\ solutions' = Append(solutions, solution)
            /\ retval' = ShouldStop(solutions', cfg.max_solutions)
            /\ pc' = "ret"
            /\ UNCHANGED <<frames, variable_stack, conflict_set, child_conflicts>>
       ELSE LET next == GetNextVariable(prob, cfg.variable_ordering, variable_stack,
                                        current_domains, weights)
            IN  /\ variable_stack' = next.stack
                /\ conflict_set' = [conflict_set EXCEPT ![next.v] = {}]
                /\ child_conflicts' =
                       IF child_conflicts.alias = next.v
                       THEN [alias |-> Unassigned, val |-> conflict_set[next.v]]
                       ELSE child_conflicts
                /\ frames' = Append(frames,
                                    [v |-> next.v,
                                     vals |-> AscList(current_domains[next.v]),
                                     entry |-> Entry])
                /\ pc' = "loop"
                /\ UNCHANGED <<solutions, retval>>
    /\ UNCHANGED <<prob, cfg, solution, current_domains, pruned_map, last_support,
                   backtrack_count, weights, nogood_store, returned, given, prev,
                   apart>>

\* backtrack: the end of one pass of the value loop for a value that failed:
\* the assigned neighbors join the conflict set, the count goes up, the pruned
\* values come back and v is unassigned
FailValue(P, v, sol, st) ==
    RestorePrunedDomains(
        [st EXCEPT !.cs[v] = @ \cup (Neighbors(P, v) \cap Assigned(sol))], v)

\* backtrack: the dead end after the value loop; the store after the recording
DeadEndStore(use_nogoods, ng, v, sol, cs) ==
    LET conflict_assignments ==
            [cv \in DOMAIN sol |-> IF cv \in cs[v] THEN sol[cv] ELSE Unassigned]
    IN  IF use_nogoods /\ cs[v] # {} /\ Assigned(conflict_assignments) # {}
        THEN Record(ng, conflict_assignments)
        ELSE ng

\* backtrack: one pass of the value loop, up to the recursive call
TryValue ==
    /\ pc = "loop"
    /\ Len(frames[Len(frames)].vals) > 0
    /\ LET top == Len(frames)
           v == frames[top].v
           d == Head(frames[top].vals)
           ng == IF cfg.use_nogoods THEN IsNogood(nogood_store, v, d, solution)
                 ELSE [hit |-> FALSE, nogood |-> {}, ng |-> nogood_store]
           sol == [solution EXCEPT ![v] = d]
           valid == IsValid(prob, v, sol)
           pruned == PruningFunction(prob, cfg.pruning_type, v, sol, St)
           after == IF pruned.dwo THEN pruned
                    ELSE PropagateGacAlldiff(prob, cfg.use_gac_alldiff, v, sol,
                                             pruned.st)
       IN  /\ frames' = [frames EXCEPT ![top].vals = Tail(@)]
           /\ nogood_store' = ng.ng
           /\ IF ng.hit
              THEN UNCHANGED <<pc, solution, current_domains, pruned_map,
                               last_support, conflict_set, backtrack_count, weights>>
              ELSE IF valid /\ ~after.dwo
              THEN /\ solution' = sol
                   /\ SetSt(after.st)
                   /\ pc' = "call"
                   /\ UNCHANGED <<backtrack_count, weights>>
              ELSE /\ weights' = IF valid /\ cfg.variable_ordering = "DOM_WDEG"
                                 THEN IncrementWeightsOnDwo(prob, weights, v)
                                 ELSE weights
                   /\ SetSt(FailValue(prob, v, sol, IF valid THEN after.st ELSE St))
                   /\ backtrack_count' = backtrack_count + 1
                   /\ solution' = solution
                   /\ pc' = "loop"
    /\ UNCHANGED <<prob, cfg, child_conflicts, variable_stack, solutions, retval,
                   returned, calls, given, prev,
                   apart>>

\* a dead end that does not give the variable back to the pool
DeadEndForgets(v, sol, st) ==
    /\ nogood_store' = DeadEndStore(cfg.use_nogoods, nogood_store, v, sol, st.cs)
    /\ child_conflicts' = [alias |-> v, val |-> {}]
    /\ variable_stack' = variable_stack
    /\ frames' = SubSeq(frames, 1, Len(frames) - 1)
    /\ retval' = FALSE
    /\ pc' = "ret"

\* a dead end that starts the value loop of its variable over
DeadEndRetries(v, sol, st) ==
    /\ nogood_store' = DeadEndStore(cfg.use_nogoods, nogood_store, v, sol, st.cs)
    /\ child_conflicts' = [alias |-> v, val |-> {}]
    /\ variable_stack' = variable_stack
    /\ frames' = [frames EXCEPT ![Len(frames)].vals = AscList(Domain(prob))]
    /\ retval' = FALSE
    /\ pc' = "loop"

\* backtrack: the statements after the value loop, and the return of False
DeadEnd(v, sol, st) ==
    /\ nogood_store' = DeadEndStore(cfg.use_nogoods, nogood_store, v, sol, st.cs)
    /\ child_conflicts' = [alias |-> v, val |-> {}]
    /\ variable_stack' = Append(variable_stack, v)
    /\ frames' = SubSeq(frames, 1, Len(frames) - 1)
    /\ retval' = FALSE
    /\ pc' = "ret"

\* backtrack: the value loop has run out of values
LoopEnd ==
    /\ pc = "loop"
    /\ Len(frames[Len(frames)].vals) = 0
    /\ DeadEnd(frames[Len(frames)].v, solution, St)
    /\ UNCHANGED <<prob, cfg, solution, current_domains, pruned_map, last_support,
                   conflict_set, solutions, backtrack_count, weights, returned,
                   calls, given, prev,
                   apart>>

\* backtrack: the recursive call has returned into the value loop
BacktrackReturn ==
    /\ pc = "ret"
    /\ Len(frames) > 0
    /\ LET v == frames[Len(frames)].v
           use_cbj == cfg.max_solutions = 1
           unassigned == [solution EXCEPT ![v] = Unassigned]
           jumped == RestorePrunedDomains(
                         [St EXCEPT !.cs[v] = @ \cup ChildConflicts], v)
       IN  IF retval
           THEN /\ frames' = SubSeq(frames, 1, Len(frames) - 1)
                /\ UNCHANGED <<pc, retval, solution, current_domains, pruned_map,
                               last_support, conflict_set, child_conflicts,
                               variable_stack, backtrack_count, nogood_store>>
           ELSE /\ backtrack_count' = backtrack_count + 1
                /\ solution' = unassigned
                /\ IF use_cbj /\ ChildConflicts # {} /\ v \notin ChildConflicts
                   THEN /\ SetSt(jumped)
                        /\ DeadEnd(v, unassigned, jumped)
                   ELSE /\ SetSt(FailValue(prob, v, solution, St))
                        /\ pc' = "loop"
                        /\ UNCHANGED <<frames, retval, child_conflicts,
                                       variable_stack, nogood_store>>
    /\ UNCHANGED <<prob, cfg, solutions, weights, returned, calls, given, prev, apart>>

\* the outermost backtrack call returns to its entry point
SolveReturn ==
    /\ pc = "ret"
    /\ Len(frames) = 0
    /\ returned' = retval
    /\ pc' = "done"
    /\ UNCHANGED <<prob, cfg, solution, frames, current_domains, pruned_map,
                   last_support, conflict_set, child_conflicts, variable_stack,
                   solutions, backtrack_count, weights, nogood_store, retval, calls,
                   given, prev,
                   apart>>

\* ------------------------------------------------------------------ given cells
\* given_values is a dict; its items are taken in ascending order of the variable

\* a one-hop step that leaves the value above the given one in the given cell
OneHopWide(P, g) ==
    [v \in VarSet(P) |->
        IF g[v] # Unassigned THEN {g[v], g[v] + 1}
        ELSE Domain(P) \ {g[n] : n \in Neighbors(P, v) \cap Assigned(g)}]

\* solve_with_initial_propagation: "for var, val in given_values.items(): ..."
OneHop(P, g) ==
    [v \in VarSet(P) |->
        IF g[v] # Unassigned THEN {g[v]}
        ELSE Domain(P) \ {g[n] : n \in Neighbors(P, v) \cap Assigned(g)}]

\* solve_with_initial_propagation: the arcs next to the cells of givens[i..]
RECURSIVE GivenAgenda(_, _, _, _, _)
GivenAgenda(P, g, givens, i, q) ==
    IF i > Len(givens) THEN q
    ELSE GivenAgenda(P, g, givens, i + 1,
                     Enqueue(AscList(Neighbors(P, givens[i])), 1, givens[i],
                             Unassigned, Assigned(g), q))

\* solve_with_initial_propagation: "while agenda: ..." with its inline revise
RECURSIVE InitialLoop(_, _, _, _)
InitialLoop(P, g, q, cd) ==
    IF Len(q.agenda) = 0 THEN [cd |-> cd, dwo |-> FALSE]
    ELSE LET arc == q.agenda[Len(q.agenda)]
             q1 == [agenda |-> SubSeq(q.agenda, 1, Len(q.agenda) - 1),
                    agenda_set |-> q.agenda_set \ {arc}]
             Xi == arc[1]
             Xj == arc[2]
             gone == {x \in cd[Xi] :
                        \A y \in cd[Xj] :
                            ~IsValid(P, Xj, [g EXCEPT ![Xi] = x, ![Xj] = y])}
             cd1 == [cd EXCEPT ![Xi] = @ \ gone]
         IN  IF gone # {}
             THEN IF cd1[Xi] = {} THEN [cd |-> cd1, dwo |-> TRUE]
                  ELSE InitialLoop(P, g,
                                   Enqueue(AscList(Neighbors(P, Xi)), 1, Xi, Xj,
                                           Assigned(g), q1),
                                   cd1)
             ELSE InitialLoop(P, g, q1, cd1)

\* solve_with_initial_propagation: the domains after the initial pass, and
\* whether the pass returned False
InitialPropagation(P, g) ==
    InitialLoop(P, g,
                GivenAgenda(P, g, AscList(Assigned(g)), 1,
                            [agenda |-> <<>>, agenda_set |-> {}]),
                OneHop(P, g))

\* the given_values a caller may pass: nothing compares them with the static
\* domain, so a value outside it is among them
Givens(P) == [VarSet(P) -> {Unassigned} \cup Domain(P) \cup {P.nd + 1}]

\* CSP.solve_with_initial_propagation(given_values), up to its return of False
\* or its call of backtrack
SolveWithInitialPropagation ==
    /\ pc = "idle"
    /\ \E g \in Givens(prob) :
        LET r == InitialPropagation(prob, g)
        IN  /\ given' = g
            /\ current_domains' = r.cd
            /\ solution' = IF r.dwo THEN solution ELSE g
            /\ variable_stack' =
                   IF r.dwo THEN <<>>
                   ELSE SelectSeq(variables, LAMBDA v : g[v] = Unassigned)
            /\ pc' = IF r.dwo THEN "done" ELSE "call"
            /\ returned' = FALSE
    /\ pruned_map' = [v \in VarSet(prob) |-> [n \in VarSet(prob) |-> {}]]
    /\ backtrack_count' = 0
    /\ last_support' = [k \in DOMAIN last_support |-> Unassigned]
    /\ conflict_set' = [v \in VarSet(prob) |-> {}]
    /\ child_conflicts' = NoConflicts
    /\ solutions' = <<>>
    /\ nogood_store' = EmptyStore(prob)
    /\ calls' = 0
    /\ UNCHANGED <<prob, cfg, frames, weights, retval, prev, apart>>

\* ------------------------------------------------------------------ a second solver

\* what a finished call leaves for its caller to read
Outcome ==
    [prob |-> prob, cfg |-> cfg, given |-> given, returned |-> returned,
     solutions |-> solutions, backtrack_count |-> backtrack_count]

\* a new CSP is built for P with the arguments c, and its solve() starts
SolveFresh(P, c) ==
    /\ prob' = P
    /\ cfg' = c
    /\ pc' = "call"
    /\ solution' = EmptySolution(P)
    /\ frames' = <<>>
    /\ current_domains' = [v \in VarSet(P) |-> Domain(P)]
    /\ pruned_map' = [v \in VarSet(P) |-> [n \in VarSet(P) |-> {}]]
    /\ last_support' = [k \in DOMAIN last_support |-> Unassigned]
    /\ conflict_set' = [v \in VarSet(P) |-> {}]
    /\ child_conflicts' = NoConflicts
    /\ variable_stack' = Variables(P)
    /\ solutions' = <<>>
    /\ backtrack_count' = 0
    /\ weights' = [cid \in 1..Len(P.cons) |-> 1]
    /\ nogood_store' = EmptyStore(P)
    /\ retval' = FALSE
    /\ returned' = FALSE
    /\ calls' = 0
    /\ given' = EmptySolution(P)
    /\ prev' = Append(prev, Outcome)
    /\ UNCHANGED apart

\* the arguments that differ from c in the propagation alone: another pruning
\* than forward checking, or GAC all-different switched on
OtherPropagation(c) ==
    {[c EXCEPT !.pruning_type = p] :
        p \in IF c.pruning_type = "FORWARD_CHECKING"
              THEN PruningTypes \ {"FORWARD_CHECKING"} ELSE {}}
      \cup (IF c.use_gac_alldiff THEN {} ELSE {[c EXCEPT !.use_gac_alldiff = TRUE]})

\* the same problem is solved again by a solver with other propagation
SolveOtherPropagation ==
    /\ pc = "done"
    /\ prev = <<>>
    /\ \E c \in OtherPropagation(cfg) : SolveFresh(prob, c)

\* the same problem is solved again by a solver with nogood learning
SolveWithNogoods ==
    /\ pc = "done"
    /\ prev = <<>>
    /\ ~cfg.use_nogoods
    /\ SolveFresh(prob, [cfg EXCEPT !.use_nogoods = TRUE])

\* add_constraint(equals_constraint(v, g[v])) for every given cell, after the
\* constraints of P
WithEquals(P, g) ==
    LET givens == AscList(Assigned(g))
    IN  [P EXCEPT !.cons = @ \o [i \in 1..Len(givens) |->
                                    Con("eqv", <<givens[i]>>, g[givens[i]])]]

\* the problem with its givens as equality constraints is solved by solve()
SolveWithEquals ==
    /\ pc = "done"
    /\ prev = <<>>
    /\ SolveFresh(WithEquals(prob, given), cfg)

\* CSP.solve() a second time on the same CSP object
SolveAgain ==
    /\ pc = "done"
    /\ prev = <<>>
    /\ SolveCall
    /\ prev' = Append(prev, Outcome)

\* ------------------------------------------------------------------ construction

\* CSP.add_constraint((constraint, variables)): the scope is taken as it
\* comes, over the registered variables or the one after them; constraints and
\* neighbors are defaultdicts, so no key is ever missing
AddConstraint ==
    /\ pc = "idle"
    /\ Len(prob.cons) < MaxCons
    /\ \E c \in Candidates(prob.nv + 1) :
          /\ prob' = [prob EXCEPT !.cons = Append(@, c)]
          /\ weights' = Append(weights, 1)
          /\ last_call' = [op |-> "add_constraint", n |-> Len(prob.cons) + 1,
                           scope |-> c.scope, raised |-> FALSE]
    /\ UNCHANGED <<cfg, pc, solution, frames, current_domains, pruned_map,
                   last_support, conflict_set, child_conflicts, variable_stack,
                   solutions, backtrack_count, nogood_store, retval, returned,
                   calls, given, prev, used, bitsets, sets, iteration, variables>>

\* ------------------------------------------------------------------ a store on its own

\* the variables a search works on
searched == <<prob, cfg, pc, solution, frames, current_domains, pruned_map,
              last_support, conflict_set, child_conflicts, variable_stack,
              solutions, backtrack_count, weights, retval, returned, calls, given,
              prev, variables>>

\* the conflict_assignments and the partial solutions a caller may pass
Assignments(P) == [VarSet(P) -> {Unassigned} \cup Domain(P)]

\* what the last call leaves in `used`: the nogoods held after it, each with
\* the number of the call that used it last
UsedAfter(held, nogoods, n) ==
    [nogood \in held |-> IF nogood \in nogoods THEN n ELSE used[nogood]]

\* store.record(conflict_assignments)
StoreRecord ==
    /\ last_call.n < MaxStoreCalls
    /\ \E conflict_assignments \in Assignments(prob) :
          LET after == Record(nogood_store, conflict_assignments)
              n == last_call.n + 1
          IN  /\ nogood_store' = after
              /\ last_call' = [op |-> "record", n |-> n,
                               conflict_assignments |-> conflict_assignments,
                               evicted |-> Range(nogood_store.store)
                                             \ Range(after.store)]
              /\ used' = UsedAfter(Range(after.store),
                                   {Frozen(conflict_assignments)}, n)
    /\ UNCHANGED <<searched, bitsets, sets, iteration>>

\* store.is_nogood(variable, value, solution)
StoreIsNogood ==
    /\ last_call.n < MaxStoreCalls
    /\ \E variable \in VarSet(prob), value \in Domain(prob),
          sol \in Assignments(prob) :
          LET r == IsNogood(nogood_store, variable, value, sol)
              n == last_call.n + 1
          IN  /\ nogood_store' = r.ng
              /\ last_call' = [op |-> "is_nogood", n |-> n, variable |-> variable,
                               value |-> value, solution |-> sol,
                               result |-> r.hit]
              /\ used' = UsedAfter(Range(r.ng.store), {r.nogood}, n)
    /\ UNCHANGED <<searched, bitsets, sets, iteration>>

\* store.clear()
StoreClear ==
    /\ last_call.n < MaxStoreCalls
    /\ nogood_store' = Clear(nogood_store)
    /\ last_call' = [op |-> "clear", n |-> last_call.n + 1]
    /\ used' = <<>>
    /\ UNCHANGED <<searched, bitsets, sets, iteration>>

\* ------------------------------------------------------------------ GAC on its own

\* one all-different group of GacVars + 1 members
GacProblem ==
    Problem(GacVars + 1, GacVals,
            <<Con("alldiff", [i \in 1..GacVars + 1 |-> i], 0)>>)

\* gac_alldiff_propagate(unassigned, current_domains, solution, group), as
\* _propagate_gac_alldiff calls it: the last member of the group is assigned
\* (its value may be outside every other domain), the others have any
\* non-empty current domains
GacCall ==
    /\ last_call = NoCall
    /\ \E cd \in [VarSet(prob) -> SUBSET Domain(prob) \ {{}}] :
          LET group == prob.cons[1].scope
              d == Max(cd[GacVars + 1])
              sol == [EmptySolution(prob) EXCEPT ![GacVars + 1] = d]
              unassigned == SelectSeq(group, LAMBDA v : sol[v] = Unassigned)
          IN  /\ cd[GacVars + 1] \in {{GacVals}, {1}}
              /\ \A v \in 1..GacVars : GacVals \notin cd[v]
              /\ last_call' =
                     [op |-> "gac_alldiff_propagate", n |-> 0,
                      unassigned |-> unassigned, current_domains |-> cd,
                      solution |-> sol, group |-> group,
                      removals |-> GacAlldiffPropagate(unassigned, cd, sol, group)]
    /\ UNCHANGED <<searched, nogood_store, used, bitsets, sets, iteration>>

\* gac_alldiff_propagate(unassigned, current_domains, solution, group) as
\* _propagate_gac_alldiff calls it deeper in the search: two or three members
\* of the group are assigned, each the largest value of its current domain
GacCallFew ==
    /\ last_call = NoCall
    /\ \E cd \in [VarSet(prob) -> SUBSET Domain(prob) \ {{}}],
          first \in {GacVars - 1, GacVars} :
          LET group == prob.cons[1].scope
              sol == [v \in VarSet(prob) |->
                        IF v >= first THEN Max(cd[v]) ELSE Unassigned]
              unassigned == SelectSeq(group, LAMBDA v : sol[v] = Unassigned)
          IN  /\ cd[GacVars + 1] \in {{GacVals}, {1}}
              /\ \A v \in 1..GacVars : GacVals \notin cd[v]
              /\ last_call' =
                     [op |-> "gac_alldiff_propagate", n |-> 0,
                      unassigned |-> unassigned, current_domains |-> cd,
                      solution |-> sol, group |-> group,
                      removals |-> GacAlldiffPropagate(unassigned, cd, sol, group)]
    /\ UNCHANGED <<searched, nogood_store, used, bitsets, sets, iteration>>

\* ------------------------------------------------------------------ the graph functions on their own

\* the lists of distinct nodes out of S, in any order
Lists(S) ==
    UNION {{l \in [1..k -> S] : \A i, j \in 1..k : l[i] = l[j] => i = j} :
             k \in 0..Cardinality(S)}

\* _hopcroft_karp(n_u, n_v, adj) on a bipartite graph
HopcroftKarpCall ==
    /\ last_call = NoCall
    /\ \E n_u \in 1..MaxLeft, n_v \in 1..MaxRight :
          \E adj \in [1..n_u -> Lists(1..n_v)] :
              last_call' = [op |-> "_hopcroft_karp", n |-> 0,
                            n_u |-> n_u, n_v |-> n_v, adj |-> adj,
                            matching |-> HopcroftKarp(n_u, n_v, adj)]
    /\ UNCHANGED <<searched, nogood_store, used, bitsets, sets, iteration>>

\* the directed graphs handed to Tarjan: up to MaxNodes - 1 nodes with the
\* neighbors in any order, MaxNodes nodes with ascending neighbors and no loop
Digraphs ==
    UNION {[1..n -> Lists(1..n)] : n \in 1..MaxNodes - 1}
        \cup {[n \in 1..MaxNodes |-> AscList(out[n] \ {n})] :
                 out \in [1..MaxNodes -> SUBSET (1..MaxNodes)]}

\* _tarjan_scc_iterative(n_nodes, adj) on a directed graph
TarjanCall ==
    /\ last_call = NoCall
    /\ \E adj \in Digraphs :
          last_call' = [op |-> "_tarjan_scc_iterative", n |-> 0,
                        n_nodes |-> Len(adj), adj |-> adj,
                        scc_id |-> TarjanScc(Len(adj), adj)]
    /\ UNCHANGED <<searched, nogood_store, used, bitsets, sets, iteration>>

\* ------------------------------------------------------------------ local search
\* min_conflicts keeps its assignment in the local `solution`; the model keeps
\* it in the variable solution, and the loop counter in iteration.

\* CSP.num_conflicts(v, d, solution): the constraints of v that fail with v = d
NumConflicts(P, v, d, sol) ==
    Cardinality({i \in ConstraintsOf(P, v) :
                    ~Holds(P.cons[i], [sol EXCEPT ![v] = d])})

\* a conflict test that finds every variable at peace
ConflictingNone(P, sol) == {}

\* CSP.conflicting_variables(solution)
ConflictingVariables(P, sol) ==
    {v \in Assigned(sol) : NumConflicts(P, v, sol[v], sol) > 0}

\* CSP.min_conflicting_value(v, solution): min() keeps the first of the least
MinConflictingValue(P, v, sol) ==
    Min({d \in Domain(P) :
            \A e \in Domain(P) :
               NumConflicts(P, v, d, sol) <= NumConflicts(P, v, e, sol)})

\* random.shuffle(self.variables): every order it may leave
Shuffles(P) ==
    {order \in [1..P.nv -> VarSet(P)] :
        \A i, j \in 1..P.nv : order[i] = order[j] => i = j}

RECURSIVE InitialAssignment(_, _, _, _)
\* "for v in self.variables: solution[v] = self.min_conflicting_value(...)"
InitialAssignment(P, order, i, sol) ==
    IF i > Len(order) THEN sol
    ELSE InitialAssignment(P, order, i + 1,
            [sol EXCEPT ![order[i]] = MinConflictingValue(P, order[i], sol)])

\* min_conflicts(iteration_count), up to the loop
MinConflictsEnter ==
    /\ pc = "idle"
    /\ \E iteration_count \in 0..MaxIterations, order \in Shuffles(prob) :
          /\ last_call' = [op |-> "min_conflicts", n |-> iteration_count]
          /\ variables' = order
          /\ solution' = InitialAssignment(prob, order, 1, EmptySolution(prob))
    /\ iteration' = 0
    /\ pc' = "local"
    /\ UNCHANGED <<prob, cfg, frames, current_domains, pruned_map, last_support,
                   conflict_set, child_conflicts, variable_stack, solutions,
                   backtrack_count, weights, nogood_store, retval, returned, calls,
                   given, prev, used, bitsets, sets>>

\* one pass of the loop with a conflicted variable: random.choice, then the
\* value of least conflict
MinConflictsMove ==
    /\ pc = "local"
    /\ iteration < last_call.n
    /\ \E v \in ConflictingVariables(prob, solution) :
          solution' = [solution EXCEPT ![v] = MinConflictingValue(prob, v, solution)]
    /\ iteration' = iteration + 1
    /\ UNCHANGED <<prob, cfg, pc, frames, current_domains, pruned_map, last_support,
                   conflict_set, child_conflicts, variable_stack, solutions,
                   backtrack_count, weights, nogood_store, retval, returned, calls,
                   given, prev, last_call, used, bitsets, sets, variables>>

\* one pass of the loop with no conflicted variable: append and return True
MinConflictsFound ==
    /\ pc = "local"
    /\ iteration < last_call.n
    /\ ConflictingVariables(prob, solution) = {}
    /\ solutions' = Append(solutions, solution)
    /\ retval' = TRUE
    /\ returned' = TRUE
    /\ pc' = "done"
    /\ UNCHANGED <<prob, cfg, solution, frames, current_domains, pruned_map,
                   last_support, conflict_set, child_conflicts, variable_stack,
                   backtrack_count, weights, nogood_store, calls, given, prev,
                   apart>>

\* the loop has run iteration_count times: return False
MinConflictsExhausted ==
    /\ pc = "local"
    /\ iteration = last_call.n
    /\ retval' = FALSE
    /\ returned' = FALSE
    /\ pc' = "done"
    /\ UNCHANGED <<prob, cfg, solution, frames, current_domains, pruned_map,
                   last_support, conflict_set, child_conflicts, variable_stack,
                   solutions, backtrack_count, weights, nogood_store, calls, given,
                   prev, apart>>

\* ------------------------------------------------------------------ bitset domains
\* Python's integers are unbounded and its bit operators work on the infinite
\* two's complement form: -1 is all ones, and a \div 2 rounds down.

RECURSIVE BitAnd(_, _)
\* a & b
BitAnd(a, b) ==
    IF a = 0 \/ b = 0 THEN 0
    ELSE IF a = -1 THEN b
    ELSE IF b = -1 THEN a
    ELSE (a % 2) * (b % 2) + 2 * BitAnd(a \div 2, b \div 2)

RECURSIVE BitOr(_, _)
\* a | b
BitOr(a, b) ==
    IF a = 0 THEN b
    ELSE IF b = 0 THEN a
    ELSE IF a = -1 \/ b = -1 THEN -1
    ELSE (IF a % 2 = 1 \/ b % 2 = 1 THEN 1 ELSE 0)
            + 2 * BitOr(a \div 2, b \div 2)

RECURSIVE BitXor(_, _)
\* a ^ b
BitXor(a, b) ==
    IF a = 0 THEN b
    ELSE IF b = 0 THEN a
    ELSE IF a = -1 THEN -b - 1
    ELSE IF b = -1 THEN -a - 1
    ELSE (IF a % 2 = b % 2 THEN 0 ELSE 1) + 2 * BitXor(a \div 2, b \div 2)

\* ~a
BitNot(a) == -a - 1

\* 1 << v
Shl(v) == 2 ^ v

RECURSIVE BitCount(_)
\* int.bit_count() of a non-negative integer
BitCount(a) == IF a = 0 THEN 0 ELSE (a % 2) + BitCount(a \div 2)

RECURSIVE BitLength(_)
\* int.bit_length() of a non-negative integer
BitLength(a) == IF a = 0 THEN 0 ELSE 1 + BitLength(a \div 2)

RECURSIVE OrEach(_, _)
\* for v in values: bits |= 1 << v
OrEach(bits, values) ==
    IF values = {} THEN bits
    ELSE LET v == CHOOSE x \in values : TRUE
         IN  OrEach(BitOr(bits, Shl(v)), values \ {v})

RECURSIVE ClearEach(_, _)
\* for v in other: result._bits &= ~(1 << v)
ClearEach(bits, values) ==
    IF values = {} THEN bits
    ELSE LET v == CHOOSE x \in values : TRUE
         IN  ClearEach(BitAnd(bits, BitNot(Shl(v))), values \ {v})

\* BitsetDomain.__init__(values): the _bits of the new object
BitsetDomain(values) == OrEach(0, values)

\* BitsetDomain.__contains__(v), v an int
BitsetContains(bits, v) == BitAnd(bits, Shl(v)) # 0

\* BitsetDomain.__len__()
BitsetLen(bits) == BitCount(bits)

\* BitsetDomain.__bool__()
BitsetBool(bits) == bits # 0

RECURSIVE BitsetIter(_)
\* BitsetDomain.__iter__(): the values yielded, in order
BitsetIter(bits) ==
    IF bits = 0 THEN <<>>
    ELSE LET lowest == BitAnd(bits, -bits)
         IN  <<BitLength(lowest) - 1>> \o BitsetIter(BitXor(bits, lowest))

\* BitsetDomain.copy(): the _bits of the new object
BitsetCopyOf(bits) == bits

\* a discard that flips the bit of v
DiscardFlip(bits, v) == BitXor(bits, Shl(v))

\* BitsetDomain.discard(v)
BitsetDiscardBit(bits, v) == BitAnd(bits, BitNot(Shl(v)))

\* BitsetDomain.add(v)
BitsetAddBit(bits, v) == BitOr(bits, Shl(v))

\* BitsetDomain.update(other), other a BitsetDomain
Update(bits, other_bits) == BitOr(bits, other_bits)

\* BitsetDomain.update(other), other any other iterable
UpdateEach(bits, values) == OrEach(bits, values)

\* BitsetDomain.difference(other), other a BitsetDomain: the new object
Difference(bits, other_bits) == BitAnd(BitsetCopyOf(bits), BitNot(other_bits))

\* BitsetDomain.difference(other), other any other iterable: the new object
DifferenceEach(bits, values) == ClearEach(BitsetCopyOf(bits), values)

\* the values the operations are called with
BitValues == 0..MaxBit

\* the call made last, on the object numbered target
BitsetCall(op, target) == [op |-> op, n |-> 0, target |-> target]

\* d.add(v), and s.add(v) on the set next to it
BitsetAdd ==
    /\ \E i \in DOMAIN bitsets, v \in BitValues :
          /\ bitsets' = [bitsets EXCEPT ![i] = BitsetAddBit(@, v)]
          /\ sets' = [sets EXCEPT ![i] = @ \cup {v}]
          /\ last_call' = BitsetCall("add", i)
    /\ UNCHANGED <<searched, nogood_store, used, iteration>>

\* d.discard(v), and s.discard(v)
BitsetDiscard ==
    /\ \E i \in DOMAIN bitsets, v \in BitValues :
          /\ bitsets' = [bitsets EXCEPT ![i] = BitsetDiscardBit(@, v)]
          /\ sets' = [sets EXCEPT ![i] = @ \ {v}]
          /\ last_call' = BitsetCall("discard", i)
    /\ UNCHANGED <<searched, nogood_store, used, iteration>>

\* d.update(other), and s.update(other): other is one of the objects
\* (possibly d itself) or a plain collection of values
BitsetUpdate ==
    /\ \/ \E i, j \in DOMAIN bitsets :
             /\ bitsets' = [bitsets EXCEPT ![i] = Update(@, bitsets[j])]
             /\ sets' = [sets EXCEPT ![i] = @ \cup sets[j]]
             /\ last_call' = BitsetCall("update", i)
       \/ \E i \in DOMAIN bitsets, values \in SUBSET BitValues :
             /\ bitsets' = [bitsets EXCEPT ![i] = UpdateEach(@, values)]
             /\ sets' = [sets EXCEPT ![i] = @ \cup values]
             /\ last_call' = BitsetCall("update", i)
    /\ UNCHANGED <<searched, nogood_store, used, iteration>>

\* d.difference(other), and s.difference(other): a new object
BitsetDifference ==
    /\ Len(bitsets) < MaxObjects
    /\ \/ \E i, j \in DOMAIN bitsets :
             /\ bitsets' = Append(bitsets, Difference(bitsets[i], bitsets[j]))
             /\ sets' = Append(sets, sets[i] \ sets[j])
       \/ \E i \in DOMAIN bitsets, values \in SUBSET BitValues :
             /\ bitsets' = Append(bitsets, DifferenceEach(bitsets[i], values))
             /\ sets' = Append(sets, sets[i] \ values)
    /\ last_call' = BitsetCall("difference", Len(bitsets) + 1)
    /\ UNCHANGED <<searched, nogood_store, used, iteration>>

\* d.copy(), and s.copy(): a new object
BitsetCopy ==
    /\ Len(bitsets) < MaxObjects
    /\ \E i \in DOMAIN bitsets :
          /\ bitsets' = Append(bitsets, BitsetCopyOf(bitsets[i]))
          /\ sets' = Append(sets, sets[i])
    /\ last_call' = BitsetCall("copy", Len(bitsets) + 1)
    /\ UNCHANGED <<searched, nogood_store, used, iteration>>

\* ------------------------------------------------------------------ predicates on their own

\* the constraints a predicate is built for: every lambda constraint over two
\* variables or one, and all_different over every scope of two or three
\* members, a variable listed twice included
PredicateConstraints ==
    {Con(k, <<i, j>>, 0) : k \in {"neq", "lt", "gt", "eq"},
                           i \in 1..NumVars, j \in 1..NumVars}
      \cup {Con("eqv", <<i>>, x) : i \in 1..NumVars, x \in 1..MaxVal}
      \cup {Con("alldiff", sc, 0) : sc \in [1..2 -> 1..NumVars]
                                           \cup [1..3 -> 1..NumVars]}

\* check(current_solution), for any partial assignment
PredicateCheck ==
    /\ \E sol \in Assignments(prob) :
          last_call' = [op |-> "check", n |-> 0, solution |-> sol,
                        result |-> Holds(prob.cons[1], sol)]
    /\ UNCHANGED <<searched, nogood_store, used, bitsets, sets, iteration>>

\* check(current_solution) again, after one more variable has been assigned
PredicateExtend ==
    /\ last_call.op \in {"check", "extend"}
    /\ \E v \in VarSet(prob) \ Assigned(last_call.solution), x \in Domain(prob) :
          LET sol == [last_call.solution EXCEPT ![v] = x]
          IN  last_call' = [op |-> "extend", n |-> 0, solution |-> sol,
                            result |-> Holds(prob.cons[1], sol),
                            before |-> last_call.result]
    /\ UNCHANGED <<searched, nogood_store, used, bitsets, sets, iteration>>

\* ------------------------------------------------------------------ specifications

Search == BacktrackEnter \/ TryValue \/ LoopEnd \/ BacktrackReturn \/ SolveReturn

Next == Solve \/ Search

\* one solve() call on a problem, for every problem and every configuration
Spec == Init /\ [][Next]_vars

\* the configurations a comparison starts from: no GAC, no nogoods
InitCompare ==
    /\ \E P \in Problems, c \in Configs :
          /\ ~c.use_gac_alldiff
          /\ ~c.use_nogoods
          /\ Constructed(P, c)
    /\ prev = <<>>
    /\ NothingApart

NextCompare == Solve \/ Search \/ SolveOtherPropagation \/ SolveWithNogoods

\* solve(), then solve() of a second solver that differs in one argument
SpecCompare == InitCompare /\ [][NextCompare]_vars

NextAgain == Solve \/ Search \/ SolveAgain

\* solve(), then solve() again on the same object
SpecAgain == Init /\ [][NextAgain]_vars

\* the variables and values the nogoods of a store on its own are made of
StoreProblem == Problem(StoreVars, StoreVals, <<>>)

\* NogoodStore(max_length, max_entries) with small limits
InitStore ==
    /\ ConstructedFields(StoreProblem, DefaultConfig)
    /\ prev = <<>>
    /\ \E max_length \in 1..StoreVars, max_entries \in 1..MaxStoreEntries :
          nogood_store = NewStore(StoreProblem, max_length, max_entries)
    /\ last_call = NoCall
    /\ used = <<>>
    /\ bitsets = <<>>
    /\ sets = <<>>
    /\ iteration = 0

NextStore == StoreRecord \/ StoreIsNogood \/ StoreClear

\* record, is_nogood and clear calls on a NogoodStore, in any order
SpecStore == InitStore /\ [][NextStore]_vars

\* BitsetDomain(values) and set(values)
InitBitset ==
    /\ Constructed(StoreProblem, DefaultConfig)
    /\ prev = <<>>
    /\ last_call = NoCall
    /\ used = <<>>
    /\ iteration = 0
    /\ \E values \in SUBSET BitValues :
          /\ bitsets = <<BitsetDomain(values)>>
          /\ sets = <<values>>

NextBitset ==
    BitsetAdd \/ BitsetDiscard \/ BitsetUpdate \/ BitsetDifference \/ BitsetCopy

\* a BitsetDomain and a set driven by the same calls
SpecBitset == InitBitset /\ [][NextBitset]_vars

\* one predicate, built and not yet called
InitPredicate ==
    /\ \E c \in PredicateConstraints :
          Constructed(Problem(NumVars, MaxVal, <<c>>), DefaultConfig)
    /\ prev = <<>>
    /\ NothingApart

NextPredicate == PredicateCheck \/ PredicateExtend

\* a predicate called on partial assignments and on their extensions
SpecPredicate == InitPredicate /\ [][NextPredicate]_vars

\* CSP() and one add_variables call
InitBuild ==
    /\ \E nv \in 1..NumVars : Constructed(Problem(nv, MaxVal, <<>>), DefaultConfig)
    /\ prev = <<>>
    /\ NothingApart

\* add_constraint calls on a solver whose variables are registered
SpecBuild == InitBuild /\ [][AddConstraint]_vars

InitGac ==
    /\ Constructed(GacProblem, [DefaultConfig EXCEPT !.use_gac_alldiff = TRUE])
    /\ prev = <<>>
    /\ NothingApart

NextGac == GacCall \/ GacCallFew

\* gac_alldiff_propagate called on one group, for every choice of domains
SpecGac == InitGac /\ [][NextGac]_vars

NextGraph == HopcroftKarpCall \/ TarjanCall

\* the matching and the component functions called on small graphs
SpecGraph == InitGac /\ [][NextGraph]_vars

InitLocal ==
    /\ \E P \in Problems : Constructed(P, DefaultConfig)
    /\ prev = <<>>
    /\ NothingApart

NextLocal ==
    MinConflictsEnter \/ MinConflictsMove \/ MinConflictsFound
        \/ MinConflictsExhausted

\* one min_conflicts() call on a problem, for every iteration budget
SpecLocal == InitLocal /\ [][NextLocal]_vars

\* x1 = x2 as a lambda_constraint
Twins == Problem(2, 2, <<Con("eq", <<1, 2>>, 0)>>)

GivenProblems ==
    {P \in SmallProblems : Len(P.cons) <= 1} \cup {Pigeonhole, Twins}

InitGiven ==
    /\ \E P \in GivenProblems, c \in Configs :
          /\ ~c.use_gac_alldiff
          /\ ~c.use_nogoods
          /\ c.max_solutions >= 1
          /\ Constructed(P, c)
    /\ prev = <<>>
    /\ NothingApart

NextGiven == SolveWithInitialPropagation \/ Search \/ SolveWithEquals

\* solve_with_initial_propagation(given), then solve() with the givens as
\* equality constraints
SpecGiven == InitGiven /\ [][NextGiven]_vars

\* ------------------------------------------------------------------ the yardstick
\* What a constraint means for a complete assignment a, stated without the
\* solver's own checks.
Meets(c, a) ==
    CASE c.kind = "neq" -> a[c.scope[1]] # a[c.scope[2]]
      [] c.kind = "lt"  -> a[c.scope[1]] < a[c.scope[2]]
      [] c.kind = "gt"  -> a[c.scope[1]] > a[c.scope[2]]
      [] c.kind = "eq"  -> a[c.scope[1]] = a[c.scope[2]]
      [] c.kind = "eqv" -> a[c.scope[1]] = c.val
      [] c.kind = "alldiff" ->
            Cardinality({a[v] : v \in Range(c.scope)}) = Cardinality(Range(c.scope))

\* a is complete, takes its values from the domains and meets every constraint
IsSolution(P, a) ==
    /\ DOMAIN a = VarSet(P)
    /\ \A v \in VarSet(P) : a[v] \in Domain(P)
    /\ \A k \in 1..Len(P.cons) : Meets(P.cons[k], a)

\* every solution of P
AllSolutions(P) == {a \in [VarSet(P) -> Domain(P)] : IsSolution(P, a)}

\* the first call's result, when a second solver has run
First == prev[1]

\* ------------------------------------------------------------------ C1
\* C1: every assignment that solve() has appended to `solutions` is complete,
\* takes each variable's value from that variable's domain and satisfies every
\* constraint of the problem.
C1_Sound ==
    \A i \in 1..Len(solutions) : IsSolution(prob, solutions[i])

\* two solutions of a problem with two constraints, found with GAC and nogoods on
C1_Witness ==
    /\ pc = "done"
    /\ Len(solutions) = 2
    /\ Len(prob.cons) = 2
    /\ cfg.use_gac_alldiff
    /\ cfg.use_nogoods

\* ------------------------------------------------------------------ C2
\* C2: with max_solutions at least the number of solutions of the problem, the
\* finished solve() has collected exactly the solutions of the problem (stated
\* for the default flags: no nogoods, no GAC).
C2_Complete ==
    (/\ pc = "done"
     /\ ~cfg.use_nogoods
     /\ ~cfg.use_gac_alldiff
     /\ cfg.max_solutions >= Cardinality(AllSolutions(prob)))
        => Range(solutions) = AllSolutions(prob)

\* ------------------------------------------------------------------ C3
\* C3: on a problem without any solution, the finished solve() has returned False
\* and `solutions` is empty.
C3_Unsatisfiable ==
    (pc = "done" /\ AllSolutions(prob) = {})
        => (~returned /\ solutions = <<>>)

\* an all-different over more variables than values, refuted after backtracking
\* with GAC on
C3_Witness ==
    /\ pc = "done"
    /\ AllSolutions(prob) = {}
    /\ AlldiffGroups(prob) # <<>>
    /\ cfg.use_gac_alldiff
    /\ backtrack_count > 0
    /\ ~returned

\* ------------------------------------------------------------------ C4
\* C4 as written: solve() ends in one of two states: True with at least
\* max_solutions solutions, or False with `solutions` empty.
C4_TwoTerminals ==
    pc = "done" =>
        \/ returned /\ Len(solutions) >= cfg.max_solutions
        \/ ~returned /\ solutions = <<>>

\* C4 amended: solve() ends with True and at least max_solutions (and at least
\* one) solutions, or with False after the root level is exhausted, every
\* variable unassigned again, with fewer than max_solutions solutions collected
\* (none when max_solutions is 0).
C4_Terminals ==
    pc = "done" =>
        \/ /\ returned
           /\ Len(solutions) >= cfg.max_solutions
           /\ Len(solutions) >= 1
        \/ /\ ~returned
           /\ Len(solutions) < Max({cfg.max_solutions, 1})
           /\ frames = <<>>
           /\ solution = EmptySolution(prob)

\* False is returned although a solution was collected
C4_Witness ==
    /\ pc = "done"
    /\ ~returned
    /\ Len(solutions) >= 1
    /\ Len(solutions) < cfg.max_solutions

\* ------------------------------------------------------------------ C5
\* C5 as written: at every point of solve() the number of collected solutions is
\* at most max_solutions, and the search stops as soon as it reaches it.
C5_NeverExceeds ==
    /\ Len(solutions) <= cfg.max_solutions
    /\ (/\ pc \in {"call", "loop", "ret"}
        /\ solutions # <<>>
        /\ Len(solutions) >= cfg.max_solutions)
          => (pc = "ret" /\ retval)

\* C5 amended: the number of collected solutions is at most max_solutions, or 1
\* when max_solutions is 0; as soon as it reaches that number, every pending
\* call returns True without trying another value, and solve() returns True.
C5_Bounded ==
    LET limit == Max({cfg.max_solutions, 1})
    IN  /\ Len(solutions) <= limit
        /\ (pc \in {"call", "loop", "ret"} /\ Len(solutions) >= limit)
              => (pc = "ret" /\ retval)
        /\ (pc = "done" /\ Len(solutions) >= limit) => returned

\* the limit of two is reached and a pending call with untried values returns
C5_Witness ==
    /\ pc = "ret"
    /\ retval
    /\ cfg.max_solutions = 2
    /\ Len(solutions) = 2
    /\ frames # <<>>
    /\ frames[Len(frames)].vals # <<>>

\* ------------------------------------------------------------------ C6
\* C6: a second solver that differs from the first in the propagation alone (the
\* pruning type, or GAC all-different switched on) finds a solution exactly when
\* the first one does.
C6_SameSatisfiability ==
    (pc = "done" /\ prev # <<>> /\ ~cfg.use_nogoods)
        => ((solutions # <<>>) <=> (First.solutions # <<>>))

\* ------------------------------------------------------------------ C7
\* C7: on the same problem, with the same ordering and max_solutions, the
\* backtrack_count of AC3, and of forward checking with GAC all-different, is at
\* most the backtrack_count of forward checking alone.
C7_NoMoreBacktracks ==
    (/\ pc = "done"
     /\ prev # <<>>
     /\ ~cfg.use_nogoods
     /\ First.cfg.pruning_type = "FORWARD_CHECKING"
     /\ \/ cfg.pruning_type = "AC3" /\ ~cfg.use_gac_alldiff
        \/ cfg.pruning_type = "FORWARD_CHECKING" /\ cfg.use_gac_alldiff)
        => backtrack_count <= First.backtrack_count

\* ------------------------------------------------------------------ C8
\* C8: with nogood learning switched on and everything else the same, solve()
\* returns the same value and collects the same set of solutions.
C8_NogoodsSameResult ==
    (pc = "done" /\ prev # <<>> /\ cfg.use_nogoods)
        => /\ returned = First.returned
           /\ Range(solutions) = Range(First.solutions)

\* ------------------------------------------------------------------ C9
\* the givens g take their values from the static domain
GivensInDomain(P, g) == \A v \in Assigned(g) : g[v] \in Domain(P)

\* the givens g break no constraint among themselves
GivensConsistent(P, g) == \A k \in 1..Len(P.cons) : Holds(P.cons[k], g)

\* C9: solve_with_initial_propagation(given) returns the same value and collects
\* the same set of solutions as solve() on the problem with each given added as
\* an equality constraint (stated for givens of the static domain that break no
\* constraint).
C9_GivenAsEquals ==
    (/\ pc = "done"
     /\ prev # <<>>
     /\ GivensInDomain(First.prob, First.given)
     /\ GivensConsistent(First.prob, First.given))
        => /\ returned = First.returned
           /\ Range(solutions) = Range(First.solutions)

\* ------------------------------------------------------------------ C10
\* C10: when the initial propagation of solve_with_initial_propagation empties a
\* domain, backtrack is never entered, and the call returns False with
\* `solutions` empty.
C10_NoSearchAfterWipeout ==
    (/\ prev = <<>>
     /\ pc # "idle"
     /\ \E v \in VarSet(prob) : InitialPropagation(prob, given).cd[v] = {})
        => /\ pc = "done"
           /\ calls = 0
           /\ ~returned
           /\ solutions = <<>>

\* ------------------------------------------------------------------ C11
\* C11: whenever a call of backtrack returns False, the partial assignment,
\* every current domain and the set of pending variables are what they were
\* when that call was entered.
C11_ExactUndo ==
    [][(/\ frames # <<>>
        /\ frames' = SubSeq(frames, 1, Len(frames) - 1)
        /\ pc' = "ret"
        /\ ~retval')
           => LET entry == frames[Len(frames)].entry
              IN  /\ solution' = entry.solution
                  /\ current_domains' = entry.current_domains
                  /\ Range(variable_stack') = entry.pending]_vars

\* a call below the root has returned False after failures, with GAC on, while
\* prunings of the assignments above it are still in force
C11_Witness ==
    /\ pc = "ret"
    /\ ~retval
    /\ frames # <<>>
    /\ backtrack_count >= 2
    /\ cfg.use_gac_alldiff
    /\ \E v \in VarSet(prob) : current_domains[v] # Domain(prob)

\* ------------------------------------------------------------------ C12
\* C12: a second solve() on the same CSP object returns the same value, the
\* same list of solutions and the same backtrack_count as the first.
C12_SolveTwice ==
    (pc = "done" /\ prev # <<>>)
        => /\ returned = First.returned
           /\ solutions = First.solutions
           /\ backtrack_count = First.backtrack_count

\* ------------------------------------------------------------------ C13
\* the values logged as pruned from the domain of n, by whatever assignment
Logged(n) == UNION {pruned_map[v][n] : v \in VarSet(prob)}

\* C13 as written: when solve() has returned, True or False, every entry of
\* the pruned-value log is empty.
C13_LogEmpty ==
    pc = "done" => \A n \in VarSet(prob) : Logged(n) = {}

\* C13 amended: when solve() has returned False every entry of the log is
\* empty; when it has returned True the log is not drained: it holds, for each
\* variable, exactly the values missing from its current domain, each logged
\* under an assignment of the last solution found.
C13_LogDrainedOnFalse ==
    pc = "done" =>
        IF returned
        THEN \A n \in VarSet(prob) :
                /\ Logged(n) = Domain(prob) \ current_domains[n]
                /\ \A v \in VarSet(prob) :
                      pruned_map[v][n] # {} => solution[v] # Unassigned
        ELSE \A n \in VarSet(prob) : Logged(n) = {}

\* solve() has returned True and a pruned value is still in the log
C13_Witness ==
    /\ pc = "done"
    /\ returned
    /\ backtrack_count > 0
    /\ \E n \in VarSet(prob) : Logged(n) # {}

Held == Range(nogood_store.store)

\* C15: after any record, is_nogood and clear calls, is_nogood(var, val,
\* partial) returns True exactly when some nogood held in the store contains
\* (var, val) and each of its other pairs (v, x) has partial[v] = x.
C15_IsNogoodExact ==
    last_call.op = "is_nogood" =>
        (last_call.result <=>
            \E nogood \in Held :
                /\ <<last_call.variable, last_call.value>> \in nogood
                /\ \A pair \in nogood \ {<<last_call.variable, last_call.value>>} :
                      last_call.solution[pair[1]] = pair[2])

\* is_nogood has returned True on a nogood of two pairs, in a store of two
C15_Witness ==
    /\ last_call.op = "is_nogood"
    /\ last_call.result
    /\ Cardinality(Held) = 2
    /\ \E nogood \in Held :
          /\ Cardinality(nogood) = 2
          /\ <<last_call.variable, last_call.value>> \in nogood
          /\ \A pair \in nogood : last_call.solution[pair[1]] = pair[2]

\* ------------------------------------------------------------------ C16
\* the conflict set of the record call a step makes is empty or too long
RejectedRecord ==
    /\ last_call'.op = "record"
    /\ \/ Frozen(last_call'.conflict_assignments) = {}
       \/ Cardinality(Frozen(last_call'.conflict_assignments))
             > nogood_store.max_length

StoreBounded ==
    /\ Len(nogood_store.store) <= nogood_store.max_entries
    /\ Cardinality(Held) = Len(nogood_store.store)
    /\ \A nogood \in Held :
          /\ Cardinality(nogood) >= 1
          /\ Cardinality(nogood) <= nogood_store.max_length

\* C16: after any record, is_nogood and clear calls (max_entries >= 1) the
\* store holds at most max_entries nogoods, each of 1 to max_length pairs, and
\* a record of an empty conflict set or of one longer than max_length leaves
\* the store, its recency order and its per-variable index as they were.
C16_Bounded ==
    /\ []StoreBounded
    /\ [][RejectedRecord => nogood_store' = nogood_store]_vars

\* a full store of two has just ignored a conflict set that was too long
C16_Witness ==
    /\ last_call.op = "record"
    /\ Cardinality(Frozen(last_call.conflict_assignments)) > nogood_store.max_length
    /\ nogood_store.max_entries = 2
    /\ Len(nogood_store.store) = 2

\* ------------------------------------------------------------------ C17
\* the record call a step makes adds a new nogood to a full store
RecordIntoFull ==
    /\ last_call'.op = "record"
    /\ Frozen(last_call'.conflict_assignments) # {}
    /\ Cardinality(Frozen(last_call'.conflict_assignments))
          <= nogood_store.max_length
    /\ Frozen(last_call'.conflict_assignments) \notin Held
    /\ Len(nogood_store.store) >= nogood_store.max_entries

\* the held nogoods whose last use is the oldest
LeastRecentlyUsed ==
    {nogood \in Held : \A other \in Held : used[nogood] <= used[other]}

\* C17: a record that adds a new nogood to a store holding max_entries
\* nogoods evicts exactly one nogood, the least recently used one (a use is
\* its recording, a re-recording of its pairs, or an is_nogood call that
\* returned True because of it), and takes it out of the per-variable index
\* of each of its variables; an is_nogood call that returns False changes no
\* recency.
C17_EvictsLeastRecentlyUsed ==
    [][/\ RecordIntoFull =>
             /\ Cardinality(last_call'.evicted) = 1
             /\ last_call'.evicted \subseteq LeastRecentlyUsed
             /\ Cardinality(LeastRecentlyUsed) = 1
             /\ Range(nogood_store'.store)
                   = (Held \ last_call'.evicted)
                        \cup {Frozen(last_call'.conflict_assignments)}
             /\ \A v \in DOMAIN nogood_store'.var_index :
                   last_call'.evicted
                      \cap Range(nogood_store'.var_index[v]) = {}
       /\ (last_call'.op = "is_nogood" /\ ~last_call'.result) =>
             /\ nogood_store' = nogood_store
             /\ used' = used]_vars

\* a store of two evicted the nogood recorded last, after an is_nogood call
\* had returned True because of the one recorded first
C17_Witness ==
    /\ last_call.op = "record"
    /\ Cardinality(last_call.evicted) = 1
    /\ nogood_store.max_entries = 2
    /\ \E nogood \in Held : used[nogood] = 3
    /\ \A nogood \in last_call.evicted : Cardinality(nogood) = 2

\* ------------------------------------------------------------------ C18
\* the bitset numbered i and the set numbered i answer alike
Agree(i) ==
    /\ \A v \in 0..MaxBit + 1 : BitsetContains(bitsets[i], v) <=> v \in sets[i]
    /\ BitsetLen(bitsets[i]) = Cardinality(sets[i])
    /\ BitsetBool(bitsets[i]) <=> sets[i] # {}
    /\ Range(BitsetIter(bitsets[i])) = sets[i]
    /\ Len(BitsetIter(bitsets[i])) = Cardinality(sets[i])

\* C18: for every sequence of add, discard (of an absent value too), update,
\* difference and copy over small non-negative integers, a BitsetDomain and a
\* set driven by the same sequence agree on the membership of every value, on
\* size, on emptiness and on the values iterated; and an operation applied to
\* a copy or to the result of difference never changes the original.
C18_BitsetIsSet ==
    /\ [](Len(bitsets) = Len(sets) /\ \A i \in DOMAIN bitsets : Agree(i))
    /\ [][\A k \in DOMAIN bitsets :
             k # last_call'.target =>
                /\ bitsets'[k] = bitsets[k]
                /\ sets'[k] = sets[k]]_vars

\* a value absent from a copy has been discarded from it, and the original
\* still holds two values that the copy has lost
C18_Witness ==
    /\ last_call.op = "discard"
    /\ last_call.target = 2
    /\ Len(bitsets) = 3
    /\ Cardinality(sets[1] \ sets[2]) = 2
    /\ sets[3] # {}
    /\ bitsets[3] # bitsets[1]

\* ------------------------------------------------------------------ C19
\* the predicate called last, and the assignment it was called on
Checked == prob.cons[1]

Partial == last_call.solution

\* C19: a predicate built by lambda_constraint (so less_than, greater_than
\* and equals too) returns True on every assignment that leaves a scope
\* variable unassigned, and otherwise func of the scope variables' values in
\* scope order; the all_different predicate returns False exactly when two
\* assigned members of its scope hold the same value; so a predicate that is
\* False on a partial assignment is False on every extension of it.
C19_Predicates ==
    last_call.op \in {"check", "extend"} =>
        /\ Checked.kind # "alldiff" =>
              IF \E v \in Range(Checked.scope) : Partial[v] = Unassigned
              THEN last_call.result
              ELSE last_call.result <=> Meets(Checked, Partial)
        /\ Checked.kind = "alldiff" =>
              (~last_call.result <=>
                  \E i, j \in DOMAIN Checked.scope :
                      /\ i # j
                      /\ Partial[Checked.scope[i]] # Unassigned
                      /\ Partial[Checked.scope[i]] = Partial[Checked.scope[j]])
        /\ (last_call.op = "extend" /\ ~last_call.before) => ~last_call.result

\* a less_than predicate, False on two variables, is called again after the
\* third has been assigned
C19_Witness ==
    /\ last_call.op = "extend"
    /\ ~last_call.before
    /\ Checked.kind = "lt"
    /\ Assigned(Partial) = VarSet(prob)

\* ------------------------------------------------------------------ C20
\* C20: whenever min_conflicts returns True, the assignment it appended to
\* solutions gives every variable a value of its static domain and violates
\* no registered constraint; whenever it returns False (the iteration budget
\* is used up) it appended nothing to solutions.
C20_LocalSearchSound ==
    (pc = "done" /\ last_call.op = "min_conflicts") =>
        IF returned
        THEN /\ Len(solutions) = 1
             /\ IsSolution(prob, solutions[1])
        ELSE /\ solutions = <<>>
             /\ iteration = last_call.n

\* min_conflicts returned True after it had moved a conflicted variable
C20_Witness ==
    /\ pc = "done"
    /\ last_call.op = "min_conflicts"
    /\ returned
    /\ iteration >= 1
    /\ Len(prob.cons) >= 2

\* ------------------------------------------------------------------ C21
\* C21: no solving operation (solve, solve_with_initial_propagation,
\* min_conflicts) changes the static structures: after it returns the
\* variable list (content and order), the static domains, the constraint
\* lists and the neighbor graph are as they were before the call.
C21_StaticUntouched ==
    /\ [](pc = "done" => variables = Variables(prob))
    /\ [][prob' = prob]_vars

\* ------------------------------------------------------------------ C22
\* C22: add_constraint called with a scope that names a variable never
\* registered through add_variables fails with an error at once and leaves
\* the constraint lists and the neighbor graph as they were.
C22_UnregisteredRejected ==
    [][(/\ last_call'.op = "add_constraint"
        /\ last_call'.n = Len(prob.cons) + 1
        /\ ~(Range(last_call'.scope) \subseteq VarSet(prob)))
          => /\ last_call'.raised
             /\ prob' = prob]_vars

\* ------------------------------------------------------------------ C23
\* the solutions of the problem that extend the partial assignment sol
Extensions(sol) ==
    {a \in AllSolutions(prob) : \A w \in Assigned(sol) : a[w] = sol[w]}

\* backtrack is about to leave the value loop of its variable by a backjump
AtBackjump ==
    /\ pc = "ret"
    /\ Len(frames) > 0
    /\ ~retval
    /\ cfg.max_solutions = 1
    /\ ChildConflicts # {}
    /\ frames[Len(frames)].v \notin ChildConflicts

\* C23: with max_solutions = 1, whenever backtrack leaves a variable's value
\* loop by a backjump (the child's conflict set is non-empty and does not hold
\* the variable), none of the variable's untried values extends the current
\* partial assignment to a complete solution.
C23_BackjumpSafe ==
    AtBackjump =>
        LET v == frames[Len(frames)].v
        IN  \A d \in Range(frames[Len(frames)].vals) :
               Extensions([solution EXCEPT ![v] = d]) = {}

\* ------------------------------------------------------------------ C24
\* the values the call leaves a group member: its current domain without the
\* values the assigned members hold
Available(v) ==
    last_call.current_domains[v]
        \ {last_call.solution[w] : w \in Assigned(last_call.solution)}

\* the assignments of pairwise distinct available values to the unassigned
\* members of the group
GroupAssignments ==
    {f \in [Range(last_call.unassigned) -> Domain(prob)] :
        /\ \A v \in DOMAIN f : f[v] \in Available(v)
        /\ \A v, w \in DOMAIN f : f[v] = f[w] => v = w}

\* C24: every (variable, value) pair that gac_alldiff_propagate returns for
\* removal is globally inconsistent for the group: no assignment of pairwise
\* distinct available values to the unassigned members gives that variable
\* that value, whatever the numbers of members and of values.
C24_RemovalsInconsistent ==
    last_call.op = "gac_alldiff_propagate" =>
        \A pair \in Range(last_call.removals) :
            \A f \in GroupAssignments : f[pair[1]] # pair[2]

\* ------------------------------------------------------------------ C25
\* C25: every nogood that backtrack records into the nogood store during a
\* solve, for any max_solutions, is jointly unsatisfiable: no solution of the
\* problem contains all of its (variable, value) pairs.
C25_NogoodsUnsatisfiable ==
    \A nogood \in Held :
        \A a \in AllSolutions(prob) : \E pair \in nogood : a[pair[1]] # pair[2]

\* ------------------------------------------------------------------ C26
\* C26: with backjumping inactive (max_solutions >= 2) and GAC and nogoods
\* off, solve() collects exactly min(max_solutions, S) solutions, S the number
\* of solutions of the problem, under every pruning strategy and ordering.
C26_CollectsMin ==
    (/\ pc = "done"
     /\ cfg.max_solutions >= 2
     /\ ~cfg.use_gac_alldiff
     /\ ~cfg.use_nogoods)
        => /\ Len(solutions)
                = Min({cfg.max_solutions, Cardinality(AllSolutions(prob))})
           /\ Range(solutions) \subseteq AllSolutions(prob)
           /\ Cardinality(Range(solutions)) = Len(solutions)

\* a solve() that stopped at max_solutions with more solutions left, under
\* AC3 and fail-first ordering
C26_Witness ==
    /\ pc = "done"
    /\ cfg.max_solutions = 2
    /\ ~cfg.use_gac_alldiff
    /\ ~cfg.use_nogoods
    /\ cfg.pruning_type = "AC3"
    /\ cfg.variable_ordering = "FAIL_FIRST"
    /\ Len(solutions) = 2
    /\ Cardinality(AllSolutions(prob)) > 2
    /\ Len(prob.cons) > 0

\* ------------------------------------------------------------------ C27
\* C27: every solution recorded by solve_with_initial_propagation(given) gives
\* each given variable its given value and satisfies every registered
\* constraint, for any given mapping: givens that break a constraint among
\* themselves and givens that cover every variable included.
C27_GivenSolutionsSound ==
    prev = <<>> =>
        \A i \in 1..Len(solutions) :
            /\ \A v \in Assigned(given) : solutions[i][v] = given[v]
            /\ \A k \in 1..Len(prob.cons) : Meets(prob.cons[k], solutions[i])

\* ------------------------------------------------------------------ C28
\* The value loop of backtrack is about to assign TriedVal to TriedVar; the
\* pruning function is called when no nogood matches and the assignment
\* passes is_valid.
TriedVar == frames[Len(frames)].v

TriedVal == Head(frames[Len(frames)].vals)

Tried == [solution EXCEPT ![TriedVar] = TriedVal]

AtPropagation ==
    /\ pc = "loop"
    /\ Len(frames[Len(frames)].vals) > 0
    /\ ~(cfg.use_nogoods /\ IsNogood(nogood_store, TriedVar, TriedVal, solution).hit)
    /\ IsValid(prob, TriedVar, Tried)

\* the neighbors of the variable being assigned that have no value yet
OpenNeighbors == Neighbors(prob, TriedVar) \ Assigned(Tried)

\* the values of N's current domain that break a constraint on N once N takes
\* them under the assignment being tried
Breaking(N) ==
    {x \in current_domains[N] : ~IsValid(prob, N, [Tried EXCEPT ![N] = x])}

\* C28: after AC3(V, solution) returns without DWO following V = d, no
\* unassigned neighbor of V keeps a value that breaks a constraint with
\* V = d: AC3 removes at least every value forward_check would remove.
C28_AC3AtLeastForwardCheck ==
    (AtPropagation /\ cfg.pruning_type = "AC3") =>
        LET r == AC3(prob, TriedVar, Tried, St)
        IN  ~r.dwo =>
               \A N \in OpenNeighbors : r.st.cd[N] \cap Breaking(N) = {}

\* ------------------------------------------------------------------ C29
\* what forward_check returns at the assignment being tried
Checked29 == ForwardCheck(prob, TriedVar, Tried, St)

\* forward_check has looked at N: the breaking values are gone from its
\* current domain and are in the pruned log of the assigned variable
Pruned(r, N) ==
    /\ r.st.cd[N] = current_domains[N] \ Breaking(N)
    /\ r.st.pm[TriedVar][N] = pruned_map[TriedVar][N] \cup Breaking(N)

\* forward_check has not looked at N
Untouched(r, N) ==
    /\ r.st.cd[N] = current_domains[N]
    /\ r.st.pm[TriedVar][N] = pruned_map[TriedVar][N]

Wiped == {N \in OpenNeighbors : Breaking(N) = current_domains[N]}

\* C30: forward_check returns True exactly when the current domain of some
\* unassigned neighbor became empty; it stops at the first such neighbor,
\* leaves the current domains of the neighbors not yet visited as they were
\* and adds V to that neighbor's conflict set; otherwise it returns False.
C30_StopsAtFirstWipeout ==
    (AtPropagation /\ cfg.pruning_type = "FORWARD_CHECKING") =>
        LET r == ForwardCheck(prob, TriedVar, Tried, St)
        IN  /\ r.dwo <=> Wiped # {}
            /\ r.dwo <=> \E N \in OpenNeighbors : r.st.cd[N] = {}
            /\ r.dwo =>
                  /\ \A N \in OpenNeighbors :
                        N > Min(Wiped) => r.st.cd[N] = current_domains[N]
                  /\ r.st.cs = [conflict_set EXCEPT
                                  ![Min(Wiped)] = @ \cup {TriedVar}]
            /\ ~r.dwo => r.st.cs = conflict_set

\* forward checking is about to empty a domain while a neighbor it has not
\* reached yet holds a value that breaks a constraint
C30_Witness ==
    /\ AtPropagation
    /\ cfg.pruning_type = "FORWARD_CHECKING"
    /\ Wiped # {}
    /\ \E N \in OpenNeighbors : N > Min(Wiped) /\ Breaking(N) # {}

\* ------------------------------------------------------------------ C31
\* the arcs AC3 can revise at the assignment being tried: Xi has no value, Xj
\* is a neighbor of Xi that is the assigned variable or has no value either
Arcs ==
    {a \in VarSet(prob) \X VarSet(prob) :
        /\ a[1] \notin Assigned(Tried)
        /\ a[2] \in Neighbors(prob, a[1])
        /\ a[2] = TriedVar \/ a[2] \notin Assigned(Tried)}

\* the search state with the cache entries of the arc a replaced by held,
\* one entry (or none, Unassigned) for each value of the domain
Holding(a, held) ==
    [St EXCEPT !.ls = [k \in DOMAIN @ |->
                         IF k[1] = a[1] /\ k[3] = a[2] THEN held[k[2]] ELSE @[k]]]

\* the cache contents tried for the arc a: the entries the search holds, with
\* the entry of any one value of Xi replaced by any value of Xj or by none
Caches(a) ==
    {[x \in Domain(prob) |->
        IF x = z THEN y ELSE last_support[<<a[1], x, a[2]>>]] :
        z \in Domain(prob), y \in Domain(prob) \cup {Unassigned}}

\* the cached and the cache-free revision agree on the arc a from the state st
SameRevision(a, st) ==
    LET cached == Revise(prob, TriedVar, a[1], a[2], Tried, st)
        plain == ReviseScan(prob, TriedVar, a[1], a[2], Tried, st)
    IN  /\ cached.removed = plain.removed
        /\ cached.st.cd = plain.st.cd
        /\ cached.st.pm = plain.st.pm

\* C31: revise with the AC-2001 residual-support cache removes exactly the
\* values of Xi, and returns the flag, that the cache-free revise removes and
\* returns, whatever the cache holds, stale entries included.
C31_CacheTransparent ==
    (AtPropagation /\ cfg.pruning_type \in {"AC3", "AC_FC"}) =>
        \A a \in Arcs : \A held \in Caches(a) :
            SameRevision(a, Holding(a, held))

\* the cache entry of (Xi, x, Xj) names a value that Xj's current domain has
\* lost, or one that no longer supports Xi = x
Stale(a, x) ==
    LET cached_y == last_support[<<a[1], x, a[2]>>]
    IN  /\ cached_y # Unassigned
        /\ \/ cached_y \notin current_domains[a[2]]
           \/ ~IsValid(prob, a[2], [Tried EXCEPT ![a[1]] = x, ![a[2]] = cached_y])

\* the search is about to propagate with a stale cache entry for a value that
\* the revision removes
C31_Witness ==
    /\ AtPropagation
    /\ cfg.pruning_type \in {"AC3", "AC_FC"}
    /\ \E a \in Arcs : \E x \in current_domains[a[1]] :
          /\ Stale(a, x)
          /\ x \notin Revise(prob, TriedVar, a[1], a[2], Tried, St).st.cd[a[1]]

\* ------------------------------------------------------------------ C32
\* the run of AC3 at the assignment being tried
Run32 ==
    LET agenda == InitialAgenda(prob, TriedVar, Tried)
    IN  AC3Run(prob, TriedVar, Tried,
               [agenda |-> agenda, agenda_set |-> Range(agenda)], St)

\* the worklist holds no arc twice and the companion set is its set of arcs
Companion(q) ==
    /\ \A i, j \in 1..Len(q.agenda) : q.agenda[i] = q.agenda[j] => i = j
    /\ q.agenda_set = Range(q.agenda)

\* the arc popped at step k of the run T
Popped(T, k) == T[k].q.agenda[Len(T[k].q.agenda)]

\* from step k to step k + 1 of the run T the last arc is popped, the arcs
\* below it stay, and every arc put on top is (Xk, Xi) for the Xi of the
\* popped arc, which lost a value, an Xk without a value that is not its Xj
Step32(T, k) ==
    LET before == T[k].q.agenda
        after == T[k + 1].q.agenda
        kept == Len(before) - 1
        Xi == Popped(T, k)[1]
        Xj == Popped(T, k)[2]
    IN  /\ Len(after) >= kept
        /\ SubSeq(after, 1, kept) = SubSeq(before, 1, kept)
        /\ \A i \in kept + 1..Len(after) :
              /\ after[i][2] = Xi
              /\ T[k + 1].st.cd[Xi] # T[k].st.cd[Xi]
              /\ after[i][1] \notin Assigned(Tried)
              /\ after[i][1] # Xj
        /\ T[k + 1].dwo <=>
              (T[k + 1].st.cd[Xi] = {} /\ T[k].st.cd[Xi] # {})

\* C32: throughout AC3 the worklist never holds the same arc twice and the
\* companion set equals the set of arcs in the worklist; an arc (Xk, Xi) is
\* enqueued only after a value was removed from Xi, only for unassigned Xk,
\* and never for the Xj of the arc just processed; AC3 returns True the
\* moment a revised domain is empty, processing no further arc.
C32_WorklistDiscipline ==
    (AtPropagation /\ cfg.pruning_type = "AC3") =>
        LET T == Run32
            r == AC3(prob, TriedVar, Tried, St)
        IN  /\ \A k \in 1..Len(T) : Companion(T[k].q)
            /\ \A k \in 1..Len(T) - 1 : Step32(T, k) /\ ~T[k].dwo
            /\ ~T[Len(T)].dwo => Len(T[Len(T)].q.agenda) = 0
            /\ r.dwo = T[Len(T)].dwo
            /\ r.st = T[Len(T)].st

\* AC3 is about to pop an arc whose Xi loses a value and has an unassigned
\* neighbor, other than Xj, whose arc to Xi is still in the worklist
C32_Witness ==
    /\ AtPropagation
    /\ cfg.pruning_type = "AC3"
    /\ \E k \in 1..Len(Run32) - 1 :
          LET Xi == Popped(Run32, k)[1]
              Xj == Popped(Run32, k)[2]
          IN  /\ Run32[k + 1].st.cd[Xi] # Run32[k].st.cd[Xi]
              /\ ~Run32[k + 1].dwo
              /\ \E Xk \in Neighbors(prob, Xi) \ (Assigned(Tried) \cup {Xj}) :
                    <<Xk, Xi>> \in Run32[k].q.agenda_set

\* ------------------------------------------------------------------ C33
\* the matchings of a bipartite graph: every u-node of S takes a v-node of its
\* adjacency list, no v-node is taken twice
Matchings(n_u, n_v, adj) ==
    UNION {{f \in [S -> 1..n_v] :
              /\ \A u \in S : f[u] \in Range(adj[u])
              /\ \A u, w \in S : f[u] = f[w] => u = w} :
             S \in SUBSET (1..n_u)}

MaxMatchingSize(n_u, n_v, adj) ==
    Max({Cardinality(DOMAIN f) : f \in Matchings(n_u, n_v, adj)})

\* C33: for every bipartite graph given as adjacency lists, _hopcroft_karp
\* terminates and returns a valid matching (match_u[u] = v iff
\* match_v[v] = u, and every matched pair is an edge) whose cardinality is
\* the maximum matching size of the graph.
C33_MaximumMatching ==
    last_call.op = "_hopcroft_karp" =>
        LET m == last_call.matching
            n_u == last_call.n_u
            n_v == last_call.n_v
            adj == last_call.adj
        IN  /\ DOMAIN m.match_u = 1..n_u
            /\ DOMAIN m.match_v = 1..n_v
            /\ \A u \in 1..n_u : m.match_u[u] \in (1..n_v) \cup {NoMatch}
            /\ \A v \in 1..n_v : m.match_v[v] \in (1..n_u) \cup {NoMatch}
            /\ \A u \in 1..n_u, v \in 1..n_v :
                  m.match_u[u] = v <=> m.match_v[v] = u
            /\ \A u \in 1..n_u :
                  m.match_u[u] # NoMatch => m.match_u[u] \in Range(adj[u])
            /\ Cardinality({u \in 1..n_u : m.match_u[u] # NoMatch})
                  = MaxMatchingSize(n_u, n_v, adj)

\* a graph whose maximum matching needs an augmenting path through a matched
\* pair: the first phase alone leaves a u-node out
C33_Witness ==
    /\ last_call.op = "_hopcroft_karp"
    /\ LET n_u == last_call.n_u
           adj == last_call.adj
           INF == n_u + last_call.n_v + 1
           first == HopcroftKarpOnce(n_u, adj, INF,
                      [match_u |-> [u \in 1..n_u |-> NoMatch],
                       match_v |-> [v \in 1..last_call.n_v |-> NoMatch],
                       dist |-> [u \in 1..n_u |-> 0]])
       IN  first.match_u # last_call.matching.match_u

\* ------------------------------------------------------------------ C34
\* the nodes reached from a along the edges of adj, a itself included
RECURSIVE ReachedFrom(_, _)
ReachedFrom(adj, S) ==
    LET more == S \cup UNION {Range(adj[n]) : n \in S}
    IN  IF more = S THEN S ELSE ReachedFrom(adj, more)

\* C34: for every directed graph, _tarjan_scc_iterative assigns each node a
\* component id, and two nodes receive the same id if and only if each is
\* reachable from the other.
C34_ComponentsExact ==
    last_call.op = "_tarjan_scc_iterative" =>
        LET adj == last_call.adj
            scc_id == last_call.scc_id
            nodes == 1..last_call.n_nodes
        IN  /\ DOMAIN scc_id = nodes
            /\ \A a \in nodes : scc_id[a] # NoMatch
            /\ \A a, b \in nodes :
                  scc_id[a] = scc_id[b] <=>
                      (b \in ReachedFrom(adj, {a}) /\ a \in ReachedFrom(adj, {b}))

\* a graph with a component of three nodes and a node outside it that the
\* component reaches
C34_Witness ==
    /\ last_call.op = "_tarjan_scc_iterative"
    /\ \E a, b \in 1..last_call.n_nodes :
          /\ Cardinality({n \in 1..last_call.n_nodes :
                            last_call.scc_id[n] = last_call.scc_id[a]}) = 3
          /\ last_call.scc_id[b] # last_call.scc_id[a]
          /\ b \in ReachedFrom(last_call.adj, {a})

\* ------------------------------------------------------------------ C35
\* the maximum matching of the call leaves an unassigned member out: the
\* unassigned members cannot take pairwise distinct available values
Uncovered == GroupAssignments = {}

\* C35: gac_alldiff_propagate returns no removals, so that GAC leaves all
\* current domains unchanged, when the group has fewer than 3 unassigned
\* variables and when the maximum matching does not cover every unassigned
\* variable.
C35_NoRemovals ==
    (/\ last_call.op = "gac_alldiff_propagate"
     /\ Len(last_call.unassigned) < 3 \/ Uncovered) =>
        /\ last_call.removals = <<>>
        /\ LET st == [St EXCEPT !.cd = last_call.current_domains]
               r == ApplyRemovals(GacVars + 1, last_call.removals, 1, st)
           IN  r.st.cd = last_call.current_domains /\ ~r.dwo

\* a call with three unassigned members, none without an available value,
\* that cannot take pairwise distinct values
C35_Witness ==
    /\ last_call.op = "gac_alldiff_propagate"
    /\ Len(last_call.unassigned) = 3
    /\ Uncovered
    /\ \A v \in Range(last_call.unassigned) : Available(v) # {}

\* ------------------------------------------------------------------ C36
\* the pending pool holds the registered variables without a value, each once
PoolExact ==
    /\ Range(variable_stack) = VarSet(prob) \ Assigned(solution)
    /\ \A i, j \in 1..Len(variable_stack) :
          variable_stack[i] = variable_stack[j] => i = j

\* C36: at every entry to backtrack, and at every return of backtrack with
\* False, the pending pool holds exactly the registered variables that are
\* absent from the partial assignment, each exactly once; a selected variable
\* is out of the pool while its branch is open and is back in the pool when
\* its branch has fully backtracked, also after a backjump.
C36_PoolExact ==
    /\ pc = "call" => PoolExact
    /\ (pc = "ret" /\ ~retval) => PoolExact
    /\ pc \in {"call", "loop", "ret"} =>
          \A k \in 1..Len(frames) : frames[k].v \notin Range(variable_stack)

\* a call two levels down has returned False with variables back in the pool,
\* and the caller is about to backjump
C36_Witness ==
    /\ AtBackjump
    /\ Len(frames) >= 2
    /\ Len(variable_stack) >= 1
    /\ PoolExact

\* ------------------------------------------------------------------ C37
\* no complete assignment is recorded twice
PairwiseDistinct ==
    \A i, j \in 1..Len(solutions) : solutions[i] = solutions[j] => i = j

\* the solutions of the puzzle: the solutions of the problem that give every
\* given variable its given value
PuzzleSolutions == {a \in AllSolutions(prob) : \A v \in Assigned(given) : a[v] = given[v]}

\* C37: the solutions collected by one solve() or
\* solve_with_initial_propagation() call are pairwise distinct, the same
\* complete assignment is never recorded twice, so that 2 solutions found with
\* max_solutions = 2 prove that the puzzle has at least two different
\* solutions.
C37_TwoFoundTwoExist ==
    prev = <<>> =>
        /\ PairwiseDistinct
        /\ Len(solutions) >= 2 => Cardinality(PuzzleSolutions) >= 2

\* ------------------------------------------------------------------ C38
\* C38: min_conflicts returns True whenever the working assignment reaches
\* zero conflicted variables after the greedy initialisation or after any of
\* its at most iteration_count reassignments; it returns False only if the
\* assignment was conflicted after the initialisation and after every one of
\* the iteration_count reassignments. When the call has returned False, the
\* assignment it was left with, after the initialisation and the last
\* reassignment, has a conflicted variable.
C38_FalseOnlyIfConflicted ==
    (/\ pc = "done"
     /\ last_call.op = "min_conflicts"
     /\ ~returned) =>
        ConflictingVariables(prob, solution) # {}

\* ------------------------------------------------------------------ C39
\* The propagation worklists are loops inside AC3, AC_FC and the initial
\* propagation: they end when the evaluation of AC3Loop, ACFCLoop and
\* InitialLoop ends. The search ends if a natural number goes down with every
\* step it takes and it is never left without a step before it has returned.

\* the steps a backtrack call that opens the k-th frame can take at most, its
\* return included: the entry, the frame, for every value one pass of the
\* loop and the call below, the end of the loop, the return
RECURSIVE Cost(_)
Cost(k) == IF k > prob.nv THEN 4 ELSE 4 + prob.nd * Cost(k + 1)

\* the steps the search can still take: for every open frame its return and
\* its untried values, and what the current position owes
Rank ==
    SumOver([k \in 1..Len(frames) |-> 2 + Len(frames[k].vals) * Cost(k + 1)],
            1..Len(frames))
        + (CASE pc = "idle" -> Cost(1) + 1
             [] pc = "call" -> Cost(Len(frames) + 1)
             [] pc = "loop" -> 1
             [] pc = "ret" -> 2
             [] OTHER -> 0)
        + (IF prev = <<>> THEN Cost(1) + 2 ELSE 0)

\* the search has a step to take: a value loop has its frame, a call that is
\* not a leaf has a pending variable to select
CanStep ==
    /\ pc \in {"idle", "call", "loop", "ret", "done"}
    /\ pc = "loop" => Len(frames) > 0
    /\ (pc = "call" /\ SolutionLen(solution) # Len(variables)) =>
          Len(variable_stack) > 0

====
